---- MODULE Spec2Model ----
(***************************************************************************)
(* Verification model of hypersdk's HyperCore client:                      *)
(*   - the reconnecting WebSocket task      (src/src/hypercore/ws.rs)      *)
(*   - the batched trading calls            (src/src/hypercore/http.rs)    *)
(*   - multisig signature collection        (src/src/hypercore/signing.rs) *)
(***************************************************************************)
EXTENDS Integers, Sequences, FiniteSets, TLC

\* ------------------------------------------------------------------------
\* Bounds of the model
\* ------------------------------------------------------------------------
MaxEvents == 6
MaxBatch == 3
MaxSigners == 3
MaxHeartbeatEvents == 4

\* ------------------------------------------------------------------------
\* Program constants
\* ------------------------------------------------------------------------
RECONNECT_DELAY_MS == 1500

\* ------------------------------------------------------------------------
\* Value domains
\* ------------------------------------------------------------------------
\* Subscription descriptors (hashable values, structural equality).
Descriptors == {"allMids", "trades:BTC"}

\* Payloads the socket can deliver, and the ones that deserialize to Incoming.
RawFrames == {"json:allMids", "json:trades", "json:???"}
KnownShapes == {"json:allMids", "json:trades"}

VARIABLES
    pc,       \* position of the background task `connection`
    subs,     \* the task's HashSet of desired subscriptions
    todo,     \* members of subs the replay loop has not visited yet
    srx,      \* command queue (stx -> srx), FIFO of (is_sub, subscription)
    cmds,     \* every command the handle ever enqueued, in order
    closed,   \* the Connection handle was dropped (close)
    wire,     \* subscribe/unsubscribe frames issued on the current socket
    pings,    \* ping frames issued on the current socket
    sockErr,  \* a read or a write failed on the current socket
    rcvd,     \* payloads the task read from sockets, in order
    fwd,      \* messages the task put on the consumer channel, in order
    rx,       \* consumer channel (tx -> rx) content
    eos,      \* the pull interface returned None
    conns,    \* number of successful connects so far
    wait,     \* duration of the reconnect sleep in progress (0: none)
    tick      \* the heartbeat interval has a tick that was not consumed yet

wsVars == <<pc, subs, todo, srx, cmds, closed, wire, pings, sockErr,
            rcvd, fwd, rx, eos, conns, wait, tick>>

VARIABLES
    hpc,      \* position of one batched gateway call
    hop,      \* which call of the client
    hbatch,   \* the submitted batch, a sequence of items
    hids,     \* the identifiers collected before signing
    hsign,    \* outcome of sign_rmp, computed when the call is made
    hposts,   \* number of POSTs issued to /exchange
    hfail,    \* how the awaited future failed ("none" if it did not)
    hres,     \* what the call returned
    hchain,   \* the chain of the endpoint the client was built for
    hreq,     \* the signed ActionRequest, if the signer signed
    hbody     \* the body of the response to the POST, if one arrived

httpVars == <<hpc, hop, hbatch, hids, hsign, hposts, hfail, hres, hchain,
              hreq, hbody>>

VARIABLES
    mpc,      \* position of multisig_collect_signatures
    msigners, \* the signers iterator, as given
    mlead,    \* lead address
    muser,    \* multisig account address
    maction,  \* inner action
    mchain,   \* target chain
    mnonce,   \* nonce
    mnext,    \* index of the next signer to invoke
    mbusy,    \* signers whose multi_sig_single call is in progress
    mcalls,   \* signers invoked so far, in invocation order
    msigs,    \* the local `signatures` vector
    mres,     \* what the function returned
    mlsigner, \* the lead's signer, given to MultiSigAction::sign
    mlnonce,  \* nonce given to MultiSigAction::sign
    mlvault,  \* vault address given to MultiSigAction::sign
    mlexpires, \* expiry given to MultiSigAction::sign
    mreq      \* the ActionRequest the lead signed, if any

collectVars == <<msigners, mlead, muser, maction, mchain, mnonce, mnext,
                 mbusy, mcalls, msigs, mres>>

leadVars == <<mlsigner, mlnonce, mlvault, mlexpires, mreq>>

sigVars == <<mpc, collectVars, leadVars>>

VARIABLES
    spc,      \* position of one single-signer signing call
    saction,  \* the action signed
    ssigner,  \* the signer
    snonce,   \* the caller's nonce
    svault,   \* the caller's vault address
    sexpires, \* the caller's expiry
    schain,   \* the target chain
    sres,     \* what the call returned
    sprev     \* the last request signed through a connection id

signableVars == <<spc, saction, ssigner, snonce, svault, sexpires, schain,
                  sres, sprev>>

vars == <<wsVars, httpVars, sigVars, signableVars>>

\* ------------------------------------------------------------------------
\* Helpers
\* ------------------------------------------------------------------------
\* Outgoing::Subscribe / Outgoing::Unsubscribe handed to send_json, with the
\* result send_json returned.
Frame(method, sub, ok) == [method |-> method, subscription |-> sub, ok |-> ok]

Cmd(is_sub, sub) == [is_sub |-> is_sub, sub |-> sub]

\* serde_json::from_slice::<Incoming>(&item.payload)
from_slice(raw) ==
    IF raw \in KnownShapes
    THEN [ok |-> TRUE,
          item |-> CASE raw = "json:allMids" -> [channel |-> "AllMids"]
                     [] raw = "json:trades" -> [channel |-> "Trades"]]
    ELSE [ok |-> FALSE, item |-> [channel |-> "none"]]

\* tx.send(item): fails, and is ignored, once the receiver was dropped.
tx_send(chan, item) == IF closed THEN chan ELSE Append(chan, item)

\* The select! loop running concurrently with the replay loop.
InSelect_Early == pc \in {"replay", "select"}

\* Number of events the environment has produced: commands enqueued,
\* payloads delivered, successful connects, heartbeat ticks on this socket.
Events == Len(cmds) + Len(rcvd) + conns + pings

\* The select! loop is running on an established socket.
InSelect == pc = "select"

\* ------------------------------------------------------------------------
\* Init
\* ------------------------------------------------------------------------
InitWs ==
    /\ pc = "connecting"
    /\ subs = {}
    /\ todo = {}
    /\ srx = <<>>
    /\ cmds = <<>>
    /\ closed = FALSE
    /\ wire = <<>>
    /\ pings = 0
    /\ sockErr = FALSE
    /\ rcvd = <<>>
    /\ fwd = <<>>
    /\ rx = <<>>
    /\ eos = FALSE
    /\ conns = 0
    /\ wait = 0
    /\ tick = FALSE

\* ------------------------------------------------------------------------
\* The handle: Connection::subscribe / unsubscribe / close / poll_next
\* ------------------------------------------------------------------------
Subscribe ==
    /\ ~closed
    /\ Events < MaxEvents
    /\ \E d \in Descriptors :
          /\ srx' = Append(srx, Cmd(TRUE, d))
          /\ cmds' = Append(cmds, Cmd(TRUE, d))
    /\ UNCHANGED <<pc, subs, todo, closed, wire, pings, sockErr, rcvd, fwd,
                   rx, eos, conns, wait>>
    /\ UNCHANGED <<httpVars, sigVars, signableVars>>
    /\ UNCHANGED <<tick>>

Unsubscribe ==
    /\ ~closed
    /\ Events < MaxEvents
    /\ \E d \in Descriptors :
          /\ srx' = Append(srx, Cmd(FALSE, d))
          /\ cmds' = Append(cmds, Cmd(FALSE, d))
    /\ UNCHANGED <<pc, subs, todo, closed, wire, pings, sockErr, rcvd, fwd,
                   rx, eos, conns, wait>>
    /\ UNCHANGED <<httpVars, sigVars, signableVars>>
    /\ UNCHANGED <<tick>>

\* drop(self): both the command sender and the message receiver go away.
Close ==
    /\ ~closed
    /\ closed' = TRUE
    /\ rx' = <<>>
    /\ UNCHANGED <<pc, subs, todo, srx, cmds, wire, pings, sockErr, rcvd,
                   fwd, eos, conns, wait>>
    /\ UNCHANGED <<httpVars, sigVars, signableVars>>
    /\ UNCHANGED <<tick>>

\* this.rx.poll_recv(cx): a queued message, or None once the task's sender
\* is gone and the channel is empty; Pending otherwise.
PollNext ==
    /\ ~closed
    /\ ~eos
    /\ (rx # <<>> \/ pc = "done")
    /\ IF rx # <<>>
       THEN rx' = Tail(rx) /\ eos' = eos
       ELSE rx' = rx /\ eos' = TRUE
    /\ UNCHANGED <<pc, subs, todo, srx, cmds, closed, wire, pings, sockErr,
                   rcvd, fwd, conns, wait>>
    /\ UNCHANGED <<httpVars, sigVars, signableVars>>
    /\ UNCHANGED <<tick>>

\* ConnectOk without the "Initial subscription" loop.
ConnectOk_NoReplay ==
    /\ pc = "connecting"
    /\ Events < MaxEvents
    /\ pc' = "replay"
    /\ todo' = {}
    /\ wire' = <<>>
    /\ pings' = 0
    /\ sockErr' = FALSE
    /\ conns' = conns + 1
    /\ UNCHANGED <<subs, srx, cmds, closed, rcvd, fwd, rx, eos, wait>>
    /\ UNCHANGED <<httpVars, sigVars, signableVars>>
    /\ UNCHANGED <<tick>>

\* ------------------------------------------------------------------------
\* The background task `connection`
\* ------------------------------------------------------------------------
\* timeout(5s, Stream::connect(url)) -> Ok(Ok(stream)); the replay loop
\* starts over the current content of subs.
ConnectOk ==
    /\ pc = "connecting"
    /\ Events < MaxEvents
    /\ pc' = "replay"
    /\ todo' = subs
    /\ wire' = <<>>
    /\ pings' = 0
    /\ sockErr' = FALSE
    /\ conns' = conns + 1
    /\ UNCHANGED <<subs, srx, cmds, closed, rcvd, fwd, rx, eos, wait>>
    /\ UNCHANGED <<httpVars, sigVars, signableVars>>
    /\ UNCHANGED <<tick>>

\* ConnectErr that throws away the commands queued so far.
ConnectErr_DropQueue ==
    /\ pc = "connecting"
    /\ pc' = "sleep"
    /\ wait' = RECONNECT_DELAY_MS
    /\ srx' = <<>>
    /\ UNCHANGED <<subs, todo, cmds, closed, wire, pings, sockErr,
                   rcvd, fwd, rx, eos, conns>>
    /\ UNCHANGED <<httpVars, sigVars, signableVars>>
    /\ UNCHANGED <<tick>>

\* timeout(..) -> Ok(Err(err)): sleep(1500ms); continue
ConnectErr ==
    /\ pc = "connecting"
    /\ pc' = "sleep"
    /\ wait' = RECONNECT_DELAY_MS
    /\ UNCHANGED <<subs, todo, srx, cmds, closed, wire, pings, sockErr,
                   rcvd, fwd, rx, eos, conns>>
    /\ UNCHANGED <<httpVars, sigVars, signableVars>>
    /\ UNCHANGED <<tick>>

\* timeout(..) -> Err(elapsed): sleep(1500ms); continue
ConnectTimeout ==
    /\ pc = "connecting"
    /\ pc' = "sleep"
    /\ wait' = RECONNECT_DELAY_MS
    /\ UNCHANGED <<subs, todo, srx, cmds, closed, wire, pings, sockErr,
                   rcvd, fwd, rx, eos, conns>>
    /\ UNCHANGED <<httpVars, sigVars, signableVars>>
    /\ UNCHANGED <<tick>>

\* the sleep elapses; `continue` re-enters the outer loop
SleepDone ==
    /\ pc = "sleep"
    /\ pc' = "connecting"
    /\ wait' = 0
    /\ UNCHANGED <<subs, todo, srx, cmds, closed, wire, pings, sockErr,
                   rcvd, fwd, rx, eos, conns>>
    /\ UNCHANGED <<httpVars, sigVars, signableVars>>
    /\ UNCHANGED <<tick>>

\* for sub in subs.iter().cloned() { let _ = stream.subscribe(sub).await; }
\* HashSet iteration order is unspecified; the write result is dropped.
ReplayStep ==
    /\ pc = "replay"
    /\ \E d \in todo, ok \in BOOLEAN :
          /\ wire' = Append(wire, Frame("subscribe", d, ok))
          /\ todo' = todo \ {d}
          /\ sockErr' = (sockErr \/ ~ok)
    /\ UNCHANGED <<pc, subs, srx, cmds, closed, pings, rcvd, fwd, rx, eos,
                   conns, wait>>
    /\ UNCHANGED <<httpVars, sigVars, signableVars>>
    /\ UNCHANGED <<tick>>

\* the replay loop is exhausted; interval(5s) is created, the select! loop
\* is entered
ReplayDone ==
    /\ pc = "replay"
    /\ todo = {}
    /\ pc' = "select"
    /\ UNCHANGED <<subs, todo, srx, cmds, closed, wire, pings, sockErr,
                   rcvd, fwd, rx, eos, conns, wait>>
    /\ UNCHANGED <<httpVars, sigVars, signableVars>>
    /\ tick' = TRUE

\* interval(5 s): the first tick completes at once (set by ReplayDone), each
\* later one when the period has elapsed; a tick that was not taken yet stays
\* due.
TickElapses ==
    /\ pc = "select"
    /\ ~tick
    /\ tick' = TRUE
    /\ UNCHANGED <<pc, subs, todo, srx, cmds, closed, wire, pings, sockErr,
                   rcvd, fwd, rx, eos, conns, wait>>
    /\ UNCHANGED <<httpVars, sigVars, signableVars>>

\* PingTick that takes the tick without writing a ping frame.
PingTick_NoSend ==
    /\ InSelect
    /\ tick
    /\ Events < MaxEvents
    /\ tick' = FALSE
    /\ UNCHANGED <<pc, subs, todo, srx, cmds, closed, wire, pings, sockErr,
                   rcvd, fwd, rx, eos, conns, wait>>
    /\ UNCHANGED <<httpVars, sigVars, signableVars>>

\* _ = ping.tick() => { let _ = stream.ping().await; }
PingTick ==
    /\ InSelect
    /\ tick
    /\ Events < MaxEvents
    /\ tick' = FALSE
    /\ \E ok \in BOOLEAN :
          /\ pings' = pings + 1
          /\ sockErr' = (sockErr \/ ~ok)
    /\ UNCHANGED <<pc, subs, todo, srx, cmds, closed, wire, rcvd, fwd, rx,
                   eos, conns, wait>>
    /\ UNCHANGED <<httpVars, sigVars, signableVars>>

\* maybe_item = stream.next(), the socket delivers a payload that
\* deserializes: Some(item) => tx.send(item)
RecvItem ==
    /\ InSelect
    /\ Events < MaxEvents
    /\ \E raw \in RawFrames :
          /\ from_slice(raw).ok
          /\ rcvd' = Append(rcvd, raw)
          /\ fwd' = tx_send(fwd, from_slice(raw).item)
          /\ rx' = tx_send(rx, from_slice(raw).item)
    /\ UNCHANGED <<pc, subs, todo, srx, cmds, closed, wire, pings, sockErr,
                   eos, conns>>
    /\ UNCHANGED <<wait>>
    /\ UNCHANGED <<httpVars, sigVars, signableVars>>
    /\ UNCHANGED <<tick>>

\* RecvUnparsable that ends the stream on a payload it cannot parse.
RecvUnparsable_Break ==
    /\ InSelect
    /\ Events < MaxEvents
    /\ \E raw \in RawFrames :
          /\ ~from_slice(raw).ok
          /\ rcvd' = Append(rcvd, raw)
    /\ pc' = "disconnected"
    /\ UNCHANGED <<subs, todo, srx, cmds, closed, wire, pings, sockErr,
                   fwd, rx, eos, conns, wait>>
    /\ UNCHANGED <<httpVars, sigVars, signableVars>>
    /\ tick' = FALSE

\* Stream::poll_next, Err(err) arm: the payload is logged and the while
\* loop polls the socket again; nothing reaches the select! loop.
RecvUnparsable ==
    /\ InSelect
    /\ Events < MaxEvents
    /\ \E raw \in RawFrames :
          /\ ~from_slice(raw).ok
          /\ rcvd' = Append(rcvd, raw)
    /\ UNCHANGED <<pc, subs, todo, srx, cmds, closed, wire, pings, sockErr,
                   fwd, rx, eos, conns, wait>>
    /\ UNCHANGED <<httpVars, sigVars, signableVars>>
    /\ UNCHANGED <<tick>>

\* ReadClose that returns from the task instead of breaking.
ReadClose_Return ==
    /\ InSelect
    /\ pc' = "done"
    /\ UNCHANGED <<subs, todo, srx, cmds, closed, wire, pings, sockErr,
                   rcvd, fwd, rx, eos, conns, wait>>
    /\ UNCHANGED <<httpVars, sigVars, signableVars>>
    /\ tick' = FALSE

\* stream.next() -> None after a clean close by the peer: break
ReadClose ==
    /\ InSelect
    /\ pc' = "disconnected"
    /\ UNCHANGED <<subs, todo, srx, cmds, closed, wire, pings, sockErr,
                   rcvd, fwd, rx, eos, conns, wait>>
    /\ UNCHANGED <<httpVars, sigVars, signableVars>>
    /\ tick' = FALSE

\* stream.next() -> None after a read error: break
ReadError ==
    /\ InSelect
    /\ pc' = "disconnected"
    /\ sockErr' = TRUE
    /\ UNCHANGED <<subs, todo, srx, cmds, closed, wire, pings, rcvd, fwd,
                   rx, eos, conns, wait>>
    /\ UNCHANGED <<httpVars, sigVars, signableVars>>
    /\ tick' = FALSE

\* RecvCmd that ignores the results of subs.insert / subs.remove.
RecvCmd_NoDedup ==
    /\ InSelect
    /\ srx # <<>>
    /\ srx' = Tail(srx)
    /\ LET sub == Head(srx).sub
           is_sub == Head(srx).is_sub
       IN  /\ subs' = IF is_sub THEN subs \cup {sub} ELSE subs \ {sub}
           /\ \E ok \in BOOLEAN :
                 /\ wire' = Append(wire, Frame(IF is_sub THEN "subscribe"
                                               ELSE "unsubscribe", sub, ok))
                 /\ sockErr' = (sockErr \/ ~ok)
                 /\ pc' = IF ok THEN pc ELSE "disconnected"
    /\ UNCHANGED <<todo, cmds, closed, pings, rcvd, fwd, rx, eos, conns,
                   wait>>
    /\ UNCHANGED <<httpVars, sigVars, signableVars>>
    /\ tick' = (tick /\ pc' = "select")

\* RecvCmd that changes the desired set only once the frame was written.
RecvCmd_AfterWrite ==
    /\ InSelect
    /\ srx # <<>>
    /\ srx' = Tail(srx)
    /\ LET sub == Head(srx).sub
           is_sub == Head(srx).is_sub
       IN  IF is_sub
           THEN IF sub \in subs
                THEN UNCHANGED <<pc, subs, wire, sockErr>>
                ELSE \E ok \in BOOLEAN :
                        /\ subs' = IF ok THEN subs \cup {sub} ELSE subs
                        /\ wire' = Append(wire, Frame("subscribe", sub, ok))
                        /\ sockErr' = (sockErr \/ ~ok)
                        /\ pc' = IF ok THEN pc ELSE "disconnected"
           ELSE IF sub \in subs
                THEN \E ok \in BOOLEAN :
                        /\ subs' = IF ok THEN subs \ {sub} ELSE subs
                        /\ wire' = Append(wire, Frame("unsubscribe", sub, ok))
                        /\ sockErr' = (sockErr \/ ~ok)
                        /\ pc' = IF ok THEN pc ELSE "disconnected"
                ELSE UNCHANGED <<pc, subs, wire, sockErr>>
    /\ UNCHANGED <<todo, cmds, closed, pings, rcvd, fwd, rx, eos, conns,
                   wait>>
    /\ UNCHANGED <<httpVars, sigVars, signableVars>>
    /\ tick' = (tick /\ pc' = "select")

\* item = srx.recv() -> Some((is_sub, sub))
RecvCmd ==
    /\ InSelect
    /\ srx # <<>>
    /\ srx' = Tail(srx)
    /\ LET sub == Head(srx).sub
           is_sub == Head(srx).is_sub
       IN  IF is_sub
           THEN IF sub \in subs
                THEN \* !subs.insert(..): "Already subscribed", continue
                     UNCHANGED <<pc, subs, wire, sockErr>>
                ELSE /\ subs' = subs \cup {sub}
                     /\ \E ok \in BOOLEAN :
                           /\ wire' = Append(wire, Frame("subscribe", sub, ok))
                           /\ sockErr' = (sockErr \/ ~ok)
                           /\ pc' = IF ok THEN pc ELSE "disconnected"
           ELSE IF sub \in subs
                THEN /\ subs' = subs \ {sub}
                     /\ \E ok \in BOOLEAN :
                           /\ wire' = Append(wire, Frame("unsubscribe", sub, ok))
                           /\ sockErr' = (sockErr \/ ~ok)
                           /\ pc' = IF ok THEN pc ELSE "disconnected"
                ELSE UNCHANGED <<pc, subs, wire, sockErr>>
    /\ UNCHANGED <<todo, cmds, closed, pings, rcvd, fwd, rx, eos, conns,
                   wait>>
    /\ UNCHANGED <<httpVars, sigVars, signableVars>>
    /\ tick' = (tick /\ pc' = "select")

\* item = srx.recv() -> None (every sender dropped, queue drained): return
RecvNone ==
    /\ InSelect
    /\ srx = <<>>
    /\ closed
    /\ pc' = "done"
    /\ UNCHANGED <<subs, todo, srx, cmds, closed, wire, pings, sockErr,
                   rcvd, fwd, rx, eos, conns, wait>>
    /\ UNCHANGED <<httpVars, sigVars, signableVars>>
    /\ tick' = FALSE

\* Reconnect with the desired set rebuilt for the new connection.
Reconnect_NewSet ==
    /\ pc = "disconnected"
    /\ pc' = "connecting"
    /\ subs' = {}
    /\ UNCHANGED <<todo, srx, cmds, closed, wire, pings, sockErr,
                   rcvd, fwd, rx, eos, conns, wait>>
    /\ UNCHANGED <<httpVars, sigVars, signableVars>>
    /\ UNCHANGED <<tick>>

\* log::debug!("Disconnected from {url}"); the outer loop starts over
Reconnect ==
    /\ pc = "disconnected"
    /\ pc' = "connecting"
    /\ UNCHANGED <<subs, todo, srx, cmds, closed, wire, pings, sockErr,
                   rcvd, fwd, rx, eos, conns, wait>>
    /\ UNCHANGED <<httpVars, sigVars, signableVars>>
    /\ UNCHANGED <<tick>>

\* ------------------------------------------------------------------------
\* Signing: value domains and the pure functions of signing.rs / http.rs
\* ------------------------------------------------------------------------
Signers == {"s1", "s2", "s3"}
Addresses == {"A", "B"}
Chains == {"Mainnet", "Testnet"}
Nonces == {1, 2}
\* "order" has no multisig typed-data form, "usdSend" has one.
InnerActions == {"order", "usdSend"}
\* Option<T>
None == [some |-> FALSE]
Some(x) == [some |-> TRUE, val |-> x]

\* DateTime<Utc>: whole seconds since the epoch and the milliseconds within
\* the second.
DateTimes == {[secs |-> 0, millis |-> 1], [secs |-> 1, millis |-> 0]}
OptAddresses == {None} \cup {Some(a) : a \in Addresses}
OptDateTimes == {None} \cup {Some(t) : t \in DateTimes}

SignersUpTo(n) == UNION {[1..k -> Signers] : k \in 0..n}

\* signer.address()
address(signer) ==
    CASE signer = "s1" -> "0xS1" [] signer = "s2" -> "0xS2" [] signer = "s3" -> "0xS3"

\* Address::to_string(): the EIP-55 mixed-case rendering (leading bytes elided)
to_string(addr) == CASE addr = "A" -> "0xAbCd" [] addr = "B" -> "0xEf01"

\* str::to_lowercase()
to_lowercase(str) ==
    CASE str \in {"0xAbCd", "0xABCD"} -> "0xabcd"
      [] str \in {"0xEf01", "0xEF01"} -> "0xef01"
      [] OTHER -> str

\* str::parse::<Address>(): hex digits are read whatever their case
from_str(text) ==
    CASE text \in {"0xAbCd", "0xABCD", "0xabcd"} -> "A"
      [] text \in {"0xEf01", "0xEF01", "0xef01"} -> "B"

\* The spellings of an address a caller may write.
WrittenForms(addr) ==
    {text \in {"0xAbCd", "0xABCD", "0xabcd", "0xEf01", "0xEF01", "0xef01"} :
        from_str(text) = addr}

\* The 20 bytes of an address: 0x00..00abcd and 0x01..01ef01.
addr20(addr) ==
    [i \in 1..20 |->
        CASE addr = "A" -> (IF i = 19 THEN 171 ELSE IF i = 20 THEN 205 ELSE 0)
          [] addr = "B" -> (IF i = 19 THEN 239 ELSE 1)]

\* u64::to_be_bytes (the values of the model are below 2^32)
be64(n) ==
    <<0, 0, 0, 0, (n \div 16777216) % 256, (n \div 65536) % 256,
      (n \div 256) % 256, n % 256>>

\* chain.is_mainnet()
is_mainnet(chain) == chain = "Mainnet"

\* maybe_expires_after.map(|after| after.timestamp_millis() as u64)
timestamp_millis(maybe_expires_after) ==
    IF maybe_expires_after.some
    THEN Some(maybe_expires_after.val.secs * 1000 + maybe_expires_after.val.millis)
    ELSE None

\* A signature is a function of the signing key and of what was signed.
sign_typed_data(signer, message, domain) ==
    [signer |-> signer, message |-> message, domain |-> domain]

\* signer.sign_dynamic_typed_data_sync(&typed_data)
sign_dynamic_typed_data(signer, typed) ==
    sign_typed_data(signer, typed.message, typed.domain)

\* rmp_hash(value, nonce, vault, expires): the 256-bit hash of
\*   msgpack(value) ++ be64(nonce) ++ (0x00 | 0x01 ++ addr20)
\*                  ++ (0x00 | 0x01 ++ be64(expires)).
\* The digest is represented by its preimage (the hash is taken to be
\* collision free); value is the sequence of values msgpack serializes (one
\* for a struct, three for a 3-tuple), and msgpack is self-delimiting, so the
\* bytes after it are kept apart from it.
rmp_hash(value, nonce, vault, expires) ==
    [keccak |->
        [msgpack |-> value,
         tail |-> be64(nonce)
                  \o (IF vault.some THEN <<1>> \o addr20(vault.val) ELSE <<0>>)
                  \o (IF expires.some THEN <<1>> \o be64(expires.val) ELSE <<0>>)]]

\* B256::to_string(): the digest in hexadecimal
b256_to_string(digest) == [hex |-> digest]

\* TypedDataProvider::typed_data: the structured form of a transfer action
typed_data(action) ==
    IF action \in {"usdSend", "sendAsset", "spotSend"}
    THEN Some([domain |-> "CORE_MAINNET_EIP712_DOMAIN",
               message |-> [primary |-> action, action |-> action]])
    ELSE None

\* TypedDataProvider::typed_data_multisig
typed_data_multisig(action, multi_sig_user, lead) ==
    IF action = "usdSend"
    THEN Some([domain |-> "CORE_MAINNET_EIP712_DOMAIN",
               message |-> [primary |-> "UsdSend",
                            payloadMultiSigUser |-> multi_sig_user,
                            outerSigner |-> lead, action |-> action]])
    ELSE None

sign_l1_action(signer, chain, connection_id) ==
    sign_typed_data(signer,
                    [primary |-> "Agent",
                     source |-> IF is_mainnet(chain) THEN "a" ELSE "b",
                     connectionId |-> connection_id],
                    "CORE_MAINNET_EIP712_DOMAIN")

\* signing.rs sign_eip712: the request of a Mode A action
sign_eip712(signer, action, typed, nonce) ==
    [signature |-> sign_dynamic_typed_data(signer, typed),
     action |-> action,
     nonce |-> nonce,
     vault_address |-> None,
     expires_after |-> None]

\* sign_rmp whose request leaves the vault address out.
sign_rmp_DropVault(signer, action, nonce, maybe_vault_address, maybe_expires_after, chain) ==
    [signature |-> sign_l1_action(signer, chain,
                      rmp_hash(<<action>>, nonce, maybe_vault_address,
                               timestamp_millis(maybe_expires_after))),
     action |-> action,
     nonce |-> nonce,
     vault_address |-> None,
     expires_after |-> timestamp_millis(maybe_expires_after)]

\* sign_rmp that hashes without the vault address.
sign_rmp_HashNoVault(signer, action, nonce, maybe_vault_address, maybe_expires_after, chain) ==
    [signature |-> sign_l1_action(signer, chain,
                      rmp_hash(<<action>>, nonce, None,
                               timestamp_millis(maybe_expires_after))),
     action |-> action,
     nonce |-> nonce,
     vault_address |-> maybe_vault_address,
     expires_after |-> timestamp_millis(maybe_expires_after)]

\* signing.rs sign_rmp: the request of a Mode B action
sign_rmp(signer, action, nonce, maybe_vault_address, maybe_expires_after, chain) ==
    [signature |-> sign_l1_action(signer, chain,
                      rmp_hash(<<action>>, nonce, maybe_vault_address,
                               timestamp_millis(maybe_expires_after))),
     action |-> action,
     nonce |-> nonce,
     vault_address |-> maybe_vault_address,
     expires_after |-> timestamp_millis(maybe_expires_after)]

\* http.rs sign_eip712, the gateway's own copy
http_sign_eip712(signer, action, typed, nonce) ==
    [signature |-> sign_dynamic_typed_data(signer, typed),
     action |-> action,
     nonce |-> nonce,
     vault_address |-> None,
     expires_after |-> None]

\* http.rs sign_rmp, the gateway's own copy: it takes no chain
http_sign_rmp(signer, action, nonce, maybe_vault_address, maybe_expires_after) ==
    [signature |-> sign_typed_data(signer,
                      [primary |-> "Agent",
                       source |-> "a",
                       connectionId |->
                          rmp_hash(<<action>>, nonce, maybe_vault_address,
                                   timestamp_millis(maybe_expires_after))],
                      "CORE_MAINNET_EIP712_DOMAIN"),
     action |-> action,
     nonce |-> nonce,
     vault_address |-> maybe_vault_address,
     expires_after |-> timestamp_millis(maybe_expires_after)]

\* multi_sig_single that hashes the plain action.
multi_sig_single_PlainHash(action, signer, nonce, multi_sig_user, lead, chain) ==
    IF typed_data_multisig(action, multi_sig_user, lead).some
    THEN sign_dynamic_typed_data(signer,
             [typed_data_multisig(action, multi_sig_user, lead).val
                 EXCEPT !.domain = "MULTISIG_MAINNET_EIP712_DOMAIN"])
    ELSE sign_l1_action(signer, chain, rmp_hash(<<action>>, nonce, None, None))

multi_sig_single(action, signer, nonce, multi_sig_user, lead, chain) ==
    IF typed_data_multisig(action, multi_sig_user, lead).some
    THEN sign_dynamic_typed_data(signer,
             [typed_data_multisig(action, multi_sig_user, lead).val
                 EXCEPT !.domain = "MULTISIG_MAINNET_EIP712_DOMAIN"])
    ELSE sign_l1_action(signer, chain,
             rmp_hash(<<to_lowercase(to_string(multi_sig_user)),
                        to_lowercase(to_string(lead)), action>>,
                      nonce, None, None))

\* multisig_lead_msg whose hash covers the payload only.
multisig_lead_msg_PayloadOnly(signer, action, nonce, maybe_vault_address, maybe_expires_after, chain) ==
    [signature |-> sign_typed_data(signer,
                      [primary |-> "SendMultiSig",
                       hyperliquidChain |-> chain,
                       multiSigActionHash |->
                          b256_to_string(
                             rmp_hash(<<action.payload>>, nonce,
                                      maybe_vault_address,
                                      timestamp_millis(maybe_expires_after))),
                       nonce |-> nonce],
                      "MULTISIG_MAINNET_EIP712_DOMAIN"),
     action |-> [type |-> "multiSig", value |-> action],
     nonce |-> nonce,
     vault_address |-> maybe_vault_address,
     expires_after |-> timestamp_millis(maybe_expires_after)]

\* multisig_lead_msg: the lead's envelope over the complete MultiSigAction
\* (chain.to_string() is the chain's name)
multisig_lead_msg(signer, action, nonce, maybe_vault_address, maybe_expires_after, chain) ==
    [signature |-> sign_typed_data(signer,
                      [primary |-> "SendMultiSig",
                       hyperliquidChain |-> chain,
                       multiSigActionHash |->
                          b256_to_string(
                             rmp_hash(<<action>>, nonce, maybe_vault_address,
                                      timestamp_millis(maybe_expires_after))),
                       nonce |-> nonce],
                      "MULTISIG_MAINNET_EIP712_DOMAIN"),
     action |-> [type |-> "multiSig", value |-> action],
     nonce |-> nonce,
     vault_address |-> maybe_vault_address,
     expires_after |-> timestamp_millis(maybe_expires_after)]

\* ------------------------------------------------------------------------
\* HTTP gateway: place / cancel / cancel_by_cloid / modify
\* ------------------------------------------------------------------------
\* Items of a batch: each carries an exchange id, a client id and a price.
Oids == {1, 2}
Cloids == {"c1", "c2"}
Items == [oid : Oids, cloid : Cloids]
Statuses == {"resting", "error"}

BatchesUpTo(n) == UNION {[1..k -> Items] : k \in 0..n}

\* cloids that keeps one entry per distinct client id.
cloids_Distinct(batch) ==
    LET first(i) == \A j \in 1..(i - 1) : batch[j].cloid # batch[i].cloid
        keep == {i \in 1..Len(batch) : first(i)}
        F[i \in 0..Len(batch)] ==
            IF i = 0 THEN <<>>
            ELSE IF i \in keep THEN Append(F[i - 1], batch[i].cloid)
                 ELSE F[i - 1]
    IN  F[Len(batch)]

\* batch.orders.iter().map(|req| req.cloid).collect()
cloids(batch) == [i \in 1..Len(batch) |-> batch[i].cloid]

\* batch.cancels.iter().map(|req| req.oid).collect()
oids(batch) == [i \in 1..Len(batch) |-> batch[i].oid]

\* ActionError { ids, err }
ActionError(ids, err) == [kind |-> "err", ids |-> ids, err |-> err]

\* The calls that return Result<Vec<OrderResponseStatus>, ActionError<_>>.
BatchCalls == {"place", "cancel", "cancel_by_cloid", "modify"}

\* The calls that return anyhow::Result<()>.
UnitCalls ==
    {"schedule_cancel", "send_usdc", "send_asset", "spot_send",
     "evm_user_modify", "noop"}

\* The error a call returns: the batched calls wrap it with the ids
\* (map_err / Err(ActionError { .. })), the others pass an anyhow error on
\* (? / anyhow::bail!).
Failure(op, ids, err) ==
    IF op \in BatchCalls THEN ActionError(ids, err)
    ELSE [kind |-> "err", err |-> err]

\* Response bodies.  No response; a body that is not JSON; a JSON body that
\* is no ApiResponse; and the ApiResponse values the calls match on.
NoBody == [kind |-> "none"]
NotJson == [kind |-> "text"]
OtherJson == [kind |-> "json"]
OkOrder(statuses) ==
    [kind |-> "api", status |-> "ok",
     response |-> [type |-> "order", statuses |-> statuses]]
OkDefault == [kind |-> "api", status |-> "ok", response |-> [type |-> "default"]]
ApiErr(err) == [kind |-> "api", status |-> "err", response |-> [err |-> err]]

\* The statuses the venue answers a batch with: one per item, in item order.
VenueStatuses(batch) == [1..Len(batch) -> Statuses]

\* The Ok response the call matches on, and the one it does not.
ExpectedOk(op, batch) ==
    IF op \in BatchCalls THEN {OkOrder(st) : st \in VenueStatuses(batch)}
    ELSE {OkDefault}
UnexpectedOk(op, batch) ==
    IF op \in BatchCalls THEN {OkDefault}
    ELSE {OkOrder(st) : st \in VenueStatuses(batch)}

InitHttp ==
    /\ hpc = "idle"
    /\ hop = "none"
    /\ hbatch = <<>>
    /\ hids = <<>>
    /\ hsign = "none"
    /\ hposts = 0
    /\ hfail = "none"
    /\ hres = [kind |-> "none"]
    /\ hchain = "Mainnet"
    /\ hreq = None
    /\ hbody = NoBody

\* sign_rmp(signer, action, ..) inside send_sign_rmp returns Ok(request) or
\* the signer's error; it runs when the call is made, before the future.
SignOutcomes == {"ok", "rejected"}

\* Client::place, synchronous part: the cloids are collected, send_sign_rmp
\* signs Action::Order(batch) and builds the future.
Place ==
    /\ hpc = "idle"
    /\ hpc' = "pending"
    /\ hop' = "place"
    /\ \E batch \in BatchesUpTo(MaxBatch) :
          /\ hbatch' = batch
          /\ hids' = cloids(batch)
    /\ hsign' \in SignOutcomes
    /\ hchain' \in Chains
    /\ \E signer \in Signers, nonce \in Nonces, vault_address \in OptAddresses,
          expires_after \in OptDateTimes :
          hreq' = IF hsign' = "ok"
                  THEN Some(http_sign_rmp(signer,
                                          [type |-> "order", orders |-> hbatch'],
                                          nonce, vault_address, expires_after))
                  ELSE None
    /\ UNCHANGED <<hposts, hfail, hres, hbody>>
    /\ UNCHANGED <<wsVars, sigVars, signableVars>>

\* Client::cancel, synchronous part (ids: req.oid of each cancel).
Cancel ==
    /\ hpc = "idle"
    /\ hpc' = "pending"
    /\ hop' = "cancel"
    /\ \E batch \in BatchesUpTo(MaxBatch) :
          /\ hbatch' = batch
          /\ hids' = oids(batch)
    /\ hsign' \in SignOutcomes
    /\ hchain' \in Chains
    /\ \E signer \in Signers, nonce \in Nonces, vault_address \in OptAddresses,
          expires_after \in OptDateTimes :
          hreq' = IF hsign' = "ok"
                  THEN Some(http_sign_rmp(signer,
                                          [type |-> "cancel", cancels |-> hbatch'],
                                          nonce, vault_address, expires_after))
                  ELSE None
    /\ UNCHANGED <<hposts, hfail, hres, hbody>>
    /\ UNCHANGED <<wsVars, sigVars, signableVars>>

\* Client::cancel_by_cloid, synchronous part (ids: req.cloid of each cancel).
CancelByCloid ==
    /\ hpc = "idle"
    /\ hpc' = "pending"
    /\ hop' = "cancel_by_cloid"
    /\ \E batch \in BatchesUpTo(MaxBatch) :
          /\ hbatch' = batch
          /\ hids' = cloids(batch)
    /\ hsign' \in SignOutcomes
    /\ hchain' \in Chains
    /\ \E signer \in Signers, nonce \in Nonces, vault_address \in OptAddresses,
          expires_after \in OptDateTimes :
          hreq' = IF hsign' = "ok"
                  THEN Some(http_sign_rmp(signer,
                                          [type |-> "cancelByCloid", cancels |-> hbatch'],
                                          nonce, vault_address, expires_after))
                  ELSE None
    /\ UNCHANGED <<hposts, hfail, hres, hbody>>
    /\ UNCHANGED <<wsVars, sigVars, signableVars>>

\* Client::modify, synchronous part (ids: req.oid of each modify).
Modify ==
    /\ hpc = "idle"
    /\ hpc' = "pending"
    /\ hop' = "modify"
    /\ \E batch \in BatchesUpTo(MaxBatch) :
          /\ hbatch' = batch
          /\ hids' = oids(batch)
    /\ hsign' \in SignOutcomes
    /\ hchain' \in Chains
    /\ \E signer \in Signers, nonce \in Nonces, vault_address \in OptAddresses,
          expires_after \in OptDateTimes :
          hreq' = IF hsign' = "ok"
                  THEN Some(http_sign_rmp(signer,
                                          [type |-> "batchModify", modifies |-> hbatch'],
                                          nonce, vault_address, expires_after))
                  ELSE None
    /\ UNCHANGED <<hposts, hfail, hres, hbody>>
    /\ UNCHANGED <<wsVars, sigVars, signableVars>>

\* Client::schedule_cancel, up to the future of the POST: send_sign_rmp signs Action::ScheduleCancel.
schedule_cancel ==
    /\ hpc = "idle"
    /\ hpc' = "pending"
    /\ hop' = "schedule_cancel"
    /\ hsign' \in SignOutcomes
    /\ hchain' \in Chains
    /\ \E signer \in Signers, nonce \in Nonces, vault_address \in OptAddresses,
          expires_after \in OptDateTimes :
          hreq' = IF hsign' = "ok"
                  THEN Some(http_sign_rmp(signer, [type |-> "scheduleCancel"], nonce,
                                          vault_address, expires_after))
                  ELSE None
    /\ UNCHANGED <<hbatch, hids, hposts, hfail, hres, hbody>>
    /\ UNCHANGED <<wsVars, sigVars, signableVars>>

\* Client::send_usdc, up to the future of the POST: send_sign_eip712 signs Action::UsdSend with its typed data.
send_usdc ==
    /\ hpc = "idle"
    /\ hpc' = "pending"
    /\ hop' = "send_usdc"
    /\ hsign' \in SignOutcomes
    /\ hchain' \in Chains
    /\ \E signer \in Signers, nonce \in Nonces :
          hreq' = IF hsign' = "ok"
                  THEN Some(http_sign_eip712(signer, [type |-> "usdSend"],
                                             typed_data("usdSend").val, nonce))
                  ELSE None
    /\ UNCHANGED <<hbatch, hids, hposts, hfail, hres, hbody>>
    /\ UNCHANGED <<wsVars, sigVars, signableVars>>

\* Client::send_asset, up to the future of the POST: send_sign_eip712 signs Action::SendAsset with its typed data.
send_asset ==
    /\ hpc = "idle"
    /\ hpc' = "pending"
    /\ hop' = "send_asset"
    /\ hsign' \in SignOutcomes
    /\ hchain' \in Chains
    /\ \E signer \in Signers, nonce \in Nonces :
          hreq' = IF hsign' = "ok"
                  THEN Some(http_sign_eip712(signer, [type |-> "sendAsset"],
                                             typed_data("sendAsset").val, nonce))
                  ELSE None
    /\ UNCHANGED <<hbatch, hids, hposts, hfail, hres, hbody>>
    /\ UNCHANGED <<wsVars, sigVars, signableVars>>

\* Client::spot_send, up to the future of the POST: send_sign_eip712 signs Action::SpotSend with its typed data.
spot_send ==
    /\ hpc = "idle"
    /\ hpc' = "pending"
    /\ hop' = "spot_send"
    /\ hsign' \in SignOutcomes
    /\ hchain' \in Chains
    /\ \E signer \in Signers, nonce \in Nonces :
          hreq' = IF hsign' = "ok"
                  THEN Some(http_sign_eip712(signer, [type |-> "spotSend"],
                                             typed_data("spotSend").val, nonce))
                  ELSE None
    /\ UNCHANGED <<hbatch, hids, hposts, hfail, hres, hbody>>
    /\ UNCHANGED <<wsVars, sigVars, signableVars>>

\* Client::evm_user_modify, up to the future of the POST: send_sign_rmp signs Action::EvmUserModify.
evm_user_modify ==
    /\ hpc = "idle"
    /\ hpc' = "pending"
    /\ hop' = "evm_user_modify"
    /\ hsign' \in SignOutcomes
    /\ hchain' \in Chains
    /\ \E signer \in Signers, nonce \in Nonces, vault_address \in OptAddresses,
          expires_after \in OptDateTimes :
          hreq' = IF hsign' = "ok"
                  THEN Some(http_sign_rmp(signer, [type |-> "evmUserModify"], nonce,
                                          vault_address, expires_after))
                  ELSE None
    /\ UNCHANGED <<hbatch, hids, hposts, hfail, hres, hbody>>
    /\ UNCHANGED <<wsVars, sigVars, signableVars>>

\* Client::noop, up to the future of the POST: send_sign_rmp signs Action::Noop.
noop ==
    /\ hpc = "idle"
    /\ hpc' = "pending"
    /\ hop' = "noop"
    /\ hsign' \in SignOutcomes
    /\ hchain' \in Chains
    /\ \E signer \in Signers, nonce \in Nonces, vault_address \in OptAddresses,
          expires_after \in OptDateTimes :
          hreq' = IF hsign' = "ok"
                  THEN Some(http_sign_rmp(signer, [type |-> "noop"], nonce,
                                          vault_address, expires_after))
                  ELSE None
    /\ UNCHANGED <<hbatch, hids, hposts, hfail, hres, hbody>>
    /\ UNCHANGED <<wsVars, sigVars, signableVars>>

\* AwaitSignError that posts the request all the same.
AwaitSignError_Posts ==
    /\ hpc = "pending"
    /\ hsign = "rejected"
    /\ hpc' = "done"
    /\ hfail' = "sign"
    /\ hposts' = hposts + 1
    /\ hres' = Failure(hop, hids, "sign")
    /\ UNCHANGED <<hop, hbatch, hids, hsign, hchain, hreq, hbody>>
    /\ UNCHANGED <<wsVars, sigVars, signableVars>>

\* let req = res?;  the signer rejected: the future fails before any POST,
\* and the caller's map_err (batched calls) wraps the error with the ids.
AwaitSignError ==
    /\ hpc = "pending"
    /\ hsign = "rejected"
    /\ hpc' = "done"
    /\ hfail' = "sign"
    /\ hres' = Failure(hop, hids, "sign")
    /\ UNCHANGED <<hop, hbatch, hids, hsign, hposts, hchain, hreq, hbody>>
    /\ UNCHANGED <<wsVars, sigVars, signableVars>>

\* AwaitTransportError that posts the request again and returns what the
\* second attempt gave.
AwaitTransportError_Retry ==
    /\ hpc = "pending"
    /\ hsign = "ok"
    /\ hpc' = "done"
    /\ hposts' = hposts + 2
    /\ hfail' \in {"connect", "timeout"}
    /\ \E body \in ExpectedOk(hop, hbatch) :
          /\ hbody' = body
          /\ hres' = IF hop \in BatchCalls
                     THEN [kind |-> "ok", statuses |-> body.response.statuses]
                     ELSE [kind |-> "ok"]
    /\ UNCHANGED <<hop, hbatch, hids, hsign, hchain, hreq>>
    /\ UNCHANGED <<wsVars, sigVars, signableVars>>

\* http_client.post(url)...send().await?.json().await? fails: connection
\* error, the 5 s timeout, or a body that does not deserialize into
\* ApiResponse.
AwaitTransportError ==
    /\ hpc = "pending"
    /\ hsign = "ok"
    /\ hpc' = "done"
    /\ hposts' = hposts + 1
    /\ \E f \in {"connect", "timeout", "decode"} :
          /\ hfail' = f
          /\ hbody' \in (IF f = "decode" THEN {NotJson, OtherJson} ELSE {NoBody})
          /\ hres' = Failure(hop, hids, f)
    /\ UNCHANGED <<hop, hbatch, hids, hsign, hchain, hreq>>
    /\ UNCHANGED <<wsVars, sigVars, signableVars>>

\* AwaitOk that returns the statuses last to first.
AwaitOk_Reversed ==
    /\ hpc = "pending"
    /\ hsign = "ok"
    /\ hpc' = "done"
    /\ hposts' = hposts + 1
    /\ \E body \in ExpectedOk(hop, hbatch) :
          /\ hbody' = body
          /\ hres' = IF hop \in BatchCalls
                     THEN [kind |-> "ok",
                           statuses |->
                              [i \in 1..Len(body.response.statuses) |->
                                  body.response.statuses[
                                      Len(body.response.statuses) + 1 - i]]]
                     ELSE [kind |-> "ok"]
    /\ UNCHANGED <<hop, hbatch, hids, hsign, hfail, hchain, hreq>>
    /\ UNCHANGED <<wsVars, sigVars, signableVars>>

\* ApiResponse::Ok(OkResponse::Order { statuses }) => Ok(statuses) in the
\* batched calls, ApiResponse::Ok(OkResponse::Default) => Ok(()) in the others
AwaitOk ==
    /\ hpc = "pending"
    /\ hsign = "ok"
    /\ hpc' = "done"
    /\ hposts' = hposts + 1
    /\ \E body \in ExpectedOk(hop, hbatch) :
          /\ hbody' = body
          /\ hres' = IF hop \in BatchCalls
                     THEN [kind |-> "ok", statuses |-> body.response.statuses]
                     ELSE [kind |-> "ok"]
    /\ UNCHANGED <<hop, hbatch, hids, hsign, hfail, hchain, hreq>>
    /\ UNCHANGED <<wsVars, sigVars, signableVars>>

\* ApiResponse::Err(err) => Err(ActionError { ids, err }) in the batched
\* calls, anyhow::bail!("..: {err}") in the others
AwaitErr ==
    /\ hpc = "pending"
    /\ hsign = "ok"
    /\ hpc' = "done"
    /\ hposts' = hposts + 1
    /\ hbody' = ApiErr("venue")
    /\ hres' = Failure(hop, hids, "venue")
    /\ UNCHANGED <<hop, hbatch, hids, hsign, hfail, hchain, hreq>>
    /\ UNCHANGED <<wsVars, sigVars, signableVars>>

\* _ => panic!("unexpected response: {resp:?}"): an ApiResponse of a variant
\* the call does not match
AwaitUnexpected ==
    /\ hpc = "pending"
    /\ hsign = "ok"
    /\ hpc' = "done"
    /\ hposts' = hposts + 1
    /\ hbody' \in UnexpectedOk(hop, hbatch)
    /\ hres' = [kind |-> "panic"]
    /\ UNCHANGED <<hop, hbatch, hids, hsign, hfail, hchain, hreq>>
    /\ UNCHANGED <<wsVars, sigVars, signableVars>>

NextHttp ==
    \/ Place
    \/ Cancel
    \/ CancelByCloid
    \/ Modify
    \/ AwaitSignError
    \/ AwaitTransportError
    \/ AwaitOk
    \/ AwaitErr
    \/ AwaitUnexpected

\* Every mutating call of the client.
NextExchange ==
    \/ Place
    \/ Cancel
    \/ CancelByCloid
    \/ Modify
    \/ schedule_cancel
    \/ send_usdc
    \/ send_asset
    \/ spot_send
    \/ evm_user_modify
    \/ noop
    \/ AwaitSignError
    \/ AwaitTransportError
    \/ AwaitOk
    \/ AwaitErr
    \/ AwaitUnexpected

NextWs ==
    \/ Subscribe
    \/ Unsubscribe
    \/ Close
    \/ PollNext
    \/ ConnectOk
    \/ ConnectErr
    \/ ConnectTimeout
    \/ SleepDone
    \/ ReplayStep
    \/ ReplayDone
    \/ TickElapses
    \/ PingTick
    \/ RecvItem
    \/ RecvUnparsable
    \/ ReadClose
    \/ ReadError
    \/ RecvCmd
    \/ RecvNone
    \/ Reconnect

\* ------------------------------------------------------------------------
\* Multisig signature collection
\* ------------------------------------------------------------------------
InitSig ==
    /\ mpc = "idle"
    /\ msigners = <<>>
    /\ mlead = "A"
    /\ muser = "A"
    /\ maction = "order"
    /\ mchain = "Mainnet"
    /\ mnonce = 1
    /\ mnext = 1
    /\ mbusy = {}
    /\ mcalls = <<>>
    /\ msigs = <<>>
    /\ mres = [kind |-> "none"]
    /\ mlsigner = "s1"
    /\ mlnonce = 1
    /\ mlvault = None
    /\ mlexpires = None
    /\ mreq = None

\* multisig_collect_signatures is entered: let mut signatures = vec![];
CollectStart ==
    /\ mpc = "idle"
    /\ mpc' = "loop"
    /\ msigners' \in SignersUpTo(MaxSigners)
    /\ mlead' \in Addresses
    /\ muser' \in Addresses
    /\ maction' \in InnerActions
    /\ mchain' \in Chains
    /\ mnonce' \in Nonces
    /\ mnext' = 1
    /\ msigs' = <<>>
    /\ UNCHANGED <<mbusy, mcalls, mres>>
    /\ UNCHANGED leadVars
    /\ UNCHANGED <<wsVars, httpVars, signableVars>>

\* for signer in signers { inner_action.multi_sig_single(signer, ..) : the
\* call is made for the next signer of the iterator
CollectInvoke ==
    /\ mpc = "loop"
    /\ mbusy = {}
    /\ mnext <= Len(msigners)
    /\ mbusy' = {mnext}
    /\ mcalls' = Append(mcalls, msigners[mnext])
    /\ UNCHANGED <<mpc, msigners, mlead, muser, maction, mchain, mnonce,
                   mnext, msigs, mres>>
    /\ UNCHANGED leadVars
    /\ UNCHANGED <<wsVars, httpVars, signableVars>>

\* CollectSigned that puts the new signature in front.
CollectSigned_Front ==
    /\ mpc = "loop"
    /\ \E i \in mbusy :
          /\ msigs' = <<multi_sig_single(maction, msigners[i], mnonce, muser,
                                         mlead, mchain)>> \o msigs
          /\ mbusy' = mbusy \ {i}
          /\ mnext' = i + 1
    /\ UNCHANGED <<mpc, msigners, mlead, muser, maction, mchain, mnonce,
                   mcalls, mres>>
    /\ UNCHANGED leadVars
    /\ UNCHANGED <<wsVars, httpVars, signableVars>>

\* the call returned Ok(sig): signatures.push(sig)
CollectSigned ==
    /\ mpc = "loop"
    /\ \E i \in mbusy :
          /\ msigs' = Append(msigs, multi_sig_single(maction, msigners[i],
                                        mnonce, muser, mlead, mchain))
          /\ mbusy' = mbusy \ {i}
          /\ mnext' = i + 1
    /\ UNCHANGED <<mpc, msigners, mlead, muser, maction, mchain, mnonce,
                   mcalls, mres>>
    /\ UNCHANGED leadVars
    /\ UNCHANGED <<wsVars, httpVars, signableVars>>

\* CollectRejected that leaves the signer out and goes on with the next one.
CollectRejected_Skip ==
    /\ mpc = "loop"
    /\ \E i \in mbusy :
          /\ mbusy' = mbusy \ {i}
          /\ mnext' = i + 1
    /\ UNCHANGED <<mpc, msigners, mlead, muser, maction, mchain, mnonce,
                   mcalls, msigs, mres>>
    /\ UNCHANGED leadVars
    /\ UNCHANGED <<wsVars, httpVars, signableVars>>

\* the call returned Err: .with_context(|| "signing using {address}")?
CollectRejected ==
    /\ mpc = "loop"
    /\ \E i \in mbusy :
          /\ mres' = [kind |-> "err", signer |-> address(msigners[i])]
          /\ mbusy' = mbusy \ {i}
    /\ mpc' = "done"
    /\ UNCHANGED <<msigners, mlead, muser, maction, mchain, mnonce, mnext,
                   mcalls, msigs>>
    /\ UNCHANGED leadVars
    /\ UNCHANGED <<wsVars, httpVars, signableVars>>

\* CollectReturn that stores the addresses as Address::to_string renders them.
CollectReturn_Checksummed ==
    /\ mpc = "loop"
    /\ mbusy = {}
    /\ mnext > Len(msigners)
    /\ mpc' = "done"
    /\ mres' = [kind |-> "ok",
                action |-> [signature_chain_id |-> "ARBITRUM_TESTNET_CHAIN_ID",
                            signatures |-> msigs,
                            payload |-> [multi_sig_user |-> to_string(muser),
                                         outer_signer |-> to_string(mlead),
                                         action |-> maction]]]
    /\ UNCHANGED <<msigners, mlead, muser, maction, mchain, mnonce, mnext,
                   mbusy, mcalls, msigs>>
    /\ UNCHANGED leadVars
    /\ UNCHANGED <<wsVars, httpVars, signableVars>>

\* the iterator is exhausted: Ok(MultiSigAction { .. })
CollectReturn ==
    /\ mpc = "loop"
    /\ mbusy = {}
    /\ mnext > Len(msigners)
    /\ mpc' = "done"
    /\ mres' = [kind |-> "ok",
                action |-> [signature_chain_id |-> "ARBITRUM_TESTNET_CHAIN_ID",
                            signatures |-> msigs,
                            payload |-> [multi_sig_user |-> to_lowercase(to_string(muser)),
                                         outer_signer |-> to_lowercase(to_string(mlead)),
                                         action |-> maction]]]
    /\ UNCHANGED <<msigners, mlead, muser, maction, mchain, mnonce, mnext,
                   mbusy, mcalls, msigs>>
    /\ UNCHANGED leadVars
    /\ UNCHANGED <<wsVars, httpVars, signableVars>>

\* impl Signable for MultiSigAction: the lead signs the collected action
\* through multisig_lead_msg
LeadSign ==
    /\ mpc = "done"
    /\ mres.kind = "ok"
    /\ mpc' = "signed"
    /\ \E signer \in Signers, nonce \in Nonces, vault_address \in OptAddresses,
          expires_after \in OptDateTimes :
          /\ mlsigner' = signer
          /\ mlnonce' = nonce
          /\ mlvault' = vault_address
          /\ mlexpires' = expires_after
          /\ mreq' = Some(multisig_lead_msg(signer, mres.action, nonce,
                                            vault_address, expires_after,
                                            mchain))
    /\ UNCHANGED collectVars
    /\ UNCHANGED <<wsVars, httpVars, signableVars>>

\* signer.sign_dynamic_typed_data_sync(&typed_data)? : the lead's signer
\* rejected the envelope
LeadRejected ==
    /\ mpc = "done"
    /\ mres.kind = "ok"
    /\ mpc' = "lead_rejected"
    /\ \E signer \in Signers, nonce \in Nonces, vault_address \in OptAddresses,
          expires_after \in OptDateTimes :
          /\ mlsigner' = signer
          /\ mlnonce' = nonce
          /\ mlvault' = vault_address
          /\ mlexpires' = expires_after
    /\ mreq' = None
    /\ UNCHANGED collectVars
    /\ UNCHANGED <<wsVars, httpVars, signableVars>>

NextSig ==
    \/ CollectStart
    \/ CollectInvoke
    \/ CollectSigned
    \/ CollectRejected
    \/ CollectReturn
    \/ LeadSign
    \/ LeadRejected

\* ------------------------------------------------------------------------
\* Single-signer signing: Signable::sign and the gateway's own signing calls
\* ------------------------------------------------------------------------
Ok(request) == [kind |-> "ok", request |-> request]
\* signer.sign_dynamic_typed_data_sync(..)? / signer.sign_typed_data_sync(..)?:
\* the signer's own error is passed on as it is
Err(error) == [kind |-> "err", error |-> error]

\* Is the signature one over the Agent wrapper of a connection id?
IsModeB(signature) == signature.message.primary = "Agent"

InitSignable ==
    /\ spc = "idle"
    /\ saction = "none"
    /\ ssigner = "s1"
    /\ snonce = 1
    /\ svault = None
    /\ sexpires = None
    /\ schain = "Mainnet"
    /\ sres = [kind |-> "none"]
    /\ sprev = None

\* ScheduleCancel::sign that signs the structured form of the action.
SignScheduleCancel_Typed ==
    /\ spc = "idle"
    /\ spc' = "done"
    /\ saction' = "scheduleCancel"
    /\ \E signer \in Signers, nonce \in Nonces, vault_address \in OptAddresses,
          expires_after \in OptDateTimes, chain \in Chains,
          outcome \in SignOutcomes :
          /\ ssigner' = signer
          /\ snonce' = nonce
          /\ svault' = vault_address
          /\ sexpires' = expires_after
          /\ schain' = chain
          /\ sres' = IF outcome = "ok"
                     THEN Ok(sign_eip712(signer, "scheduleCancel",
                                         [domain |-> "CORE_MAINNET_EIP712_DOMAIN",
                                          message |-> [primary |-> "scheduleCancel",
                                                       action |-> "scheduleCancel"]],
                                         nonce))
                     ELSE Err("alloy_signer::Error")
    /\ UNCHANGED sprev
    /\ UNCHANGED <<wsVars, httpVars, sigVars>>

\* impl Signable for BatchOrder: sign_rmp(signer, Action::Order(self), ..)
SignBatchOrder ==
    /\ spc = "idle"
    /\ spc' = "done"
    /\ saction' = "order"
    /\ \E signer \in Signers, nonce \in Nonces, vault_address \in OptAddresses,
          expires_after \in OptDateTimes, chain \in Chains,
          outcome \in SignOutcomes :
          /\ ssigner' = signer
          /\ snonce' = nonce
          /\ svault' = vault_address
          /\ sexpires' = expires_after
          /\ schain' = chain
          /\ sres' = IF outcome = "ok"
                     THEN Ok(sign_rmp(signer, "order", nonce, vault_address,
                                      expires_after, chain))
                     ELSE Err("alloy_signer::Error")
    /\ UNCHANGED sprev
    /\ UNCHANGED <<wsVars, httpVars, sigVars>>

\* impl Signable for BatchModify: sign_rmp(signer, Action::BatchModify(self), ..)
SignBatchModify ==
    /\ spc = "idle"
    /\ spc' = "done"
    /\ saction' = "batchModify"
    /\ \E signer \in Signers, nonce \in Nonces, vault_address \in OptAddresses,
          expires_after \in OptDateTimes, chain \in Chains,
          outcome \in SignOutcomes :
          /\ ssigner' = signer
          /\ snonce' = nonce
          /\ svault' = vault_address
          /\ sexpires' = expires_after
          /\ schain' = chain
          /\ sres' = IF outcome = "ok"
                     THEN Ok(sign_rmp(signer, "batchModify", nonce, vault_address,
                                      expires_after, chain))
                     ELSE Err("alloy_signer::Error")
    /\ UNCHANGED sprev
    /\ UNCHANGED <<wsVars, httpVars, sigVars>>

\* impl Signable for BatchCancel: sign_rmp(signer, Action::Cancel(self), ..)
SignBatchCancel ==
    /\ spc = "idle"
    /\ spc' = "done"
    /\ saction' = "cancel"
    /\ \E signer \in Signers, nonce \in Nonces, vault_address \in OptAddresses,
          expires_after \in OptDateTimes, chain \in Chains,
          outcome \in SignOutcomes :
          /\ ssigner' = signer
          /\ snonce' = nonce
          /\ svault' = vault_address
          /\ sexpires' = expires_after
          /\ schain' = chain
          /\ sres' = IF outcome = "ok"
                     THEN Ok(sign_rmp(signer, "cancel", nonce, vault_address,
                                      expires_after, chain))
                     ELSE Err("alloy_signer::Error")
    /\ UNCHANGED sprev
    /\ UNCHANGED <<wsVars, httpVars, sigVars>>

\* impl Signable for BatchCancelCloid: sign_rmp(signer, Action::CancelByCloid(self), ..)
SignBatchCancelCloid ==
    /\ spc = "idle"
    /\ spc' = "done"
    /\ saction' = "cancelByCloid"
    /\ \E signer \in Signers, nonce \in Nonces, vault_address \in OptAddresses,
          expires_after \in OptDateTimes, chain \in Chains,
          outcome \in SignOutcomes :
          /\ ssigner' = signer
          /\ snonce' = nonce
          /\ svault' = vault_address
          /\ sexpires' = expires_after
          /\ schain' = chain
          /\ sres' = IF outcome = "ok"
                     THEN Ok(sign_rmp(signer, "cancelByCloid", nonce, vault_address,
                                      expires_after, chain))
                     ELSE Err("alloy_signer::Error")
    /\ UNCHANGED sprev
    /\ UNCHANGED <<wsVars, httpVars, sigVars>>

\* impl Signable for ScheduleCancel: sign_rmp(signer, Action::ScheduleCancel(self), ..)
SignScheduleCancel ==
    /\ spc = "idle"
    /\ spc' = "done"
    /\ saction' = "scheduleCancel"
    /\ \E signer \in Signers, nonce \in Nonces, vault_address \in OptAddresses,
          expires_after \in OptDateTimes, chain \in Chains,
          outcome \in SignOutcomes :
          /\ ssigner' = signer
          /\ snonce' = nonce
          /\ svault' = vault_address
          /\ sexpires' = expires_after
          /\ schain' = chain
          /\ sres' = IF outcome = "ok"
                     THEN Ok(sign_rmp(signer, "scheduleCancel", nonce, vault_address,
                                      expires_after, chain))
                     ELSE Err("alloy_signer::Error")
    /\ UNCHANGED sprev
    /\ UNCHANGED <<wsVars, httpVars, sigVars>>

\* impl Signable for UsdSend: typed_data().expect(..), then
\* sign_eip712(signer, Action::UsdSend(self), typed_data, nonce); vault, expiry and
\* chain are ignored
SignUsdSend ==
    /\ spc = "idle"
    /\ spc' = "done"
    /\ saction' = "usdSend"
    /\ \E signer \in Signers, nonce \in Nonces, vault_address \in OptAddresses,
          expires_after \in OptDateTimes, chain \in Chains,
          outcome \in SignOutcomes :
          /\ ssigner' = signer
          /\ snonce' = nonce
          /\ svault' = vault_address
          /\ sexpires' = expires_after
          /\ schain' = chain
          /\ sres' = IF outcome = "ok"
                     THEN Ok(sign_eip712(signer, "usdSend",
                                         typed_data("usdSend").val, nonce))
                     ELSE Err("alloy_signer::Error")
    /\ UNCHANGED sprev
    /\ UNCHANGED <<wsVars, httpVars, sigVars>>

\* impl Signable for SendAsset: typed_data().expect(..), then
\* sign_eip712(signer, Action::SendAsset(self), typed_data, nonce); vault, expiry and
\* chain are ignored
SignSendAsset ==
    /\ spc = "idle"
    /\ spc' = "done"
    /\ saction' = "sendAsset"
    /\ \E signer \in Signers, nonce \in Nonces, vault_address \in OptAddresses,
          expires_after \in OptDateTimes, chain \in Chains,
          outcome \in SignOutcomes :
          /\ ssigner' = signer
          /\ snonce' = nonce
          /\ svault' = vault_address
          /\ sexpires' = expires_after
          /\ schain' = chain
          /\ sres' = IF outcome = "ok"
                     THEN Ok(sign_eip712(signer, "sendAsset",
                                         typed_data("sendAsset").val, nonce))
                     ELSE Err("alloy_signer::Error")
    /\ UNCHANGED sprev
    /\ UNCHANGED <<wsVars, httpVars, sigVars>>

\* impl Signable for SpotSend: typed_data().expect(..), then
\* sign_eip712(signer, Action::SpotSend(self), typed_data, nonce); vault, expiry and
\* chain are ignored
SignSpotSend ==
    /\ spc = "idle"
    /\ spc' = "done"
    /\ saction' = "spotSend"
    /\ \E signer \in Signers, nonce \in Nonces, vault_address \in OptAddresses,
          expires_after \in OptDateTimes, chain \in Chains,
          outcome \in SignOutcomes :
          /\ ssigner' = signer
          /\ snonce' = nonce
          /\ svault' = vault_address
          /\ sexpires' = expires_after
          /\ schain' = chain
          /\ sres' = IF outcome = "ok"
                     THEN Ok(sign_eip712(signer, "spotSend",
                                         typed_data("spotSend").val, nonce))
                     ELSE Err("alloy_signer::Error")
    /\ UNCHANGED sprev
    /\ UNCHANGED <<wsVars, httpVars, sigVars>>

\* Client::evm_user_modify: send_sign_rmp(signer, Action::EvmUserModify { using_big_blocks }, ..), up to
\* the request its sign_rmp builds; chain is the chain of the endpoint the
\* client was built for
EvmUserModify ==
    /\ spc = "idle"
    /\ spc' = "done"
    /\ saction' = "evmUserModify"
    /\ \E signer \in Signers, nonce \in Nonces, vault_address \in OptAddresses,
          expires_after \in OptDateTimes, chain \in Chains,
          outcome \in SignOutcomes :
          /\ ssigner' = signer
          /\ snonce' = nonce
          /\ svault' = vault_address
          /\ sexpires' = expires_after
          /\ schain' = chain
          /\ sres' = IF outcome = "ok"
                     THEN Ok(http_sign_rmp(signer, "evmUserModify", nonce,
                                           vault_address, expires_after))
                     ELSE Err("alloy_signer::Error")
    /\ UNCHANGED sprev
    /\ UNCHANGED <<wsVars, httpVars, sigVars>>

\* Client::noop: send_sign_rmp(signer, Action::Noop, ..), up to
\* the request its sign_rmp builds; chain is the chain of the endpoint the
\* client was built for
Noop ==
    /\ spc = "idle"
    /\ spc' = "done"
    /\ saction' = "noop"
    /\ \E signer \in Signers, nonce \in Nonces, vault_address \in OptAddresses,
          expires_after \in OptDateTimes, chain \in Chains,
          outcome \in SignOutcomes :
          /\ ssigner' = signer
          /\ snonce' = nonce
          /\ svault' = vault_address
          /\ sexpires' = expires_after
          /\ schain' = chain
          /\ sres' = IF outcome = "ok"
                     THEN Ok(http_sign_rmp(signer, "noop", nonce,
                                           vault_address, expires_after))
                     ELSE Err("alloy_signer::Error")
    /\ UNCHANGED sprev
    /\ UNCHANGED <<wsVars, httpVars, sigVars>>

\* The call returned; the last request signed through a connection id is
\* remembered with what was hashed for it.
SignReturn ==
    /\ spc = "done"
    /\ spc' = "idle"
    /\ sprev' = IF sres.kind = "ok" /\ IsModeB(sres.request.signature)
                THEN Some([action |-> saction, nonce |-> snonce,
                           vault |-> svault,
                           expires |-> timestamp_millis(sexpires),
                           connection_id |->
                              sres.request.signature.message.connectionId])
                ELSE sprev
    /\ saction' = "none"
    /\ ssigner' = "s1"
    /\ snonce' = 1
    /\ svault' = None
    /\ sexpires' = None
    /\ schain' = "Mainnet"
    /\ sres' = [kind |-> "none"]
    /\ UNCHANGED <<wsVars, httpVars, sigVars>>

NextSignable ==
    \/ SignBatchOrder
    \/ SignBatchModify
    \/ SignBatchCancel
    \/ SignBatchCancelCloid
    \/ SignScheduleCancel
    \/ SignUsdSend
    \/ SignSendAsset
    \/ SignSpotSend
    \/ EvmUserModify
    \/ Noop
    \/ SignReturn

Init == InitWs /\ InitHttp /\ InitSig /\ InitSignable

Spec == Init /\ [][NextWs]_vars

SpecHttp == Init /\ [][NextHttp]_vars

SpecExchange == Init /\ [][NextExchange]_vars

SpecSig == Init /\ [][NextSig]_vars

SpecSignable == Init /\ [][NextSignable]_vars

\* Scheduling of the background task: the runtime keeps polling it, a connect
\* attempt ends (at the latest by its timeout), a sleep elapses, and select!
\* picks its ready branches at random, so a branch that is ready again and
\* again is eventually taken.  Whether a connect attempt succeeds is up to
\* the endpoint.
FairSpec ==
    /\ Init
    /\ [][NextWs]_vars
    /\ WF_vars(ConnectOk \/ ConnectErr \/ ConnectTimeout)
    /\ WF_vars(SleepDone)
    /\ WF_vars(ReplayStep)
    /\ WF_vars(ReplayDone)
    /\ WF_vars(Reconnect)
    /\ WF_vars(TickElapses)
    /\ SF_vars(PingTick)
    /\ SF_vars(RecvCmd)
    /\ SF_vars(RecvNone)

\* ------------------------------------------------------------------------
\* Properties
\* ------------------------------------------------------------------------
\* Number of frames with the given method and descriptor in a frame log.
Count(log, method, d) ==
    Cardinality({i \in 1..Len(log) :
                    log[i].method = method /\ log[i].subscription = d})

Connected == pc \in {"replay", "select"}

\* C1: Reconnect replay.  While the replay of a successful connect runs, the
\* socket has been handed exactly one subscribe frame for each member of the
\* desired set already visited and none for any other descriptor, so when the
\* replay is complete there is exactly one subscribe frame per member of the
\* set as it stood at the connect, no duplicate, no omission, nothing else.
ReplayExact ==
    pc = "replay" =>
        /\ todo \subseteq subs
        /\ \A d \in Descriptors :
              /\ Count(wire, "subscribe", d) = IF d \in subs \ todo THEN 1 ELSE 0
              /\ Count(wire, "unsubscribe", d) = 0

\* A second connect, reached after commands and a lost connection, whose
\* replay of a two-member set is complete.
ReplayExactWitness ==
    /\ pc = "replay"
    /\ todo = {}
    /\ conns = 2
    /\ subs = Descriptors
    /\ Len(wire) = 2

\* C2: Replay before normal traffic.  From connect until the replay loop is
\* exhausted, no step forwards an inbound message, reads a payload, takes a
\* command off the queue, changes the desired set or sends a ping, and the
\* task leaves the replay only into the select! loop.
ReplayBeforeTraffic ==
    [][pc = "replay" =>
          /\ fwd' = fwd
          /\ rcvd' = rcvd
          /\ Len(srx') >= Len(srx)
          /\ subs' = subs
          /\ pings' = pings
          /\ pings = 0
          /\ pc' \in {"replay", "select"}
          /\ (pc' = "select" => todo = {})]_vars

\* The replay of a two-member set is complete on a fresh connection while a
\* command is queued, and nothing else happened on that connection.
ReplayBeforeTrafficWitness ==
    /\ pc = "select"
    /\ Len(wire) = 2
    /\ subs = Descriptors
    /\ srx # <<>>
    /\ pings = 0
    /\ conns = 2

\* A step of the task that took a command off the queue.
Dequeued == Len(srx') < Len(srx)

\* C3: Subscription idempotence.  A subscribe command for a descriptor that
\* is already in the desired set issues no frame and leaves the set alone; one
\* for a descriptor not in the set issues exactly one subscribe frame and adds
\* it; an unsubscribe command for a descriptor not in the set issues no frame
\* and leaves the set alone.  Hence on one connection the subscribe frames for
\* a descriptor never outnumber its unsubscribe frames by more than one.
SubscribeIdempotent ==
    /\ [](\A d \in Descriptors :
             Count(wire, "subscribe", d) <= Count(wire, "unsubscribe", d) + 1)
    /\ [][Dequeued =>
            LET c == Head(srx) IN
            /\ (c.is_sub /\ c.sub \in subs) => (wire' = wire /\ subs' = subs)
            /\ (c.is_sub /\ c.sub \notin subs) =>
                  /\ Len(wire') = Len(wire) + 1
                  /\ wire'[Len(wire')].method = "subscribe"
                  /\ wire'[Len(wire')].subscription = c.sub
                  /\ subs' = subs \cup {c.sub}
            /\ (~c.is_sub /\ c.sub \notin subs) => (wire' = wire /\ subs' = subs)]_vars

\* An unsubscribe of a never-subscribed descriptor, then the same subscribe
\* twice, all processed on the first connection: one frame, one member.
SubscribeIdempotentWitness ==
    /\ cmds = <<Cmd(FALSE, "trades:BTC"), Cmd(TRUE, "allMids"), Cmd(TRUE, "allMids")>>
    /\ srx = <<>>
    /\ conns = 1
    /\ pc = "select"
    /\ wire = <<Frame("subscribe", "allMids", TRUE)>>
    /\ subs = {"allMids"}

\* The identifier of an item that the given call reports.
IdOf(op, item) ==
    IF op \in {"place", "cancel_by_cloid"} THEN item.cloid ELSE item.oid

TransportFailures == {"connect", "timeout", "decode"}

\* C4: Batch ambiguity completeness.  When the POST of place, cancel,
\* cancel_by_cloid or modify fails in transport (connection error, timeout,
\* undecodable body), the call returns an error whose id list has one entry
\* per item of the batch, the i-th being the i-th item's identifier.
BatchAmbiguityComplete ==
    (hpc = "done" /\ hfail \in TransportFailures) =>
        /\ hres.kind = "err"
        /\ Len(hres.ids) = Len(hbatch)
        /\ \A i \in 1..Len(hbatch) : hres.ids[i] = IdOf(hop, hbatch[i])

\* A 3-order place whose request timed out after being sent; two of the
\* orders share a client id.
BatchAmbiguityCompleteWitness ==
    /\ hpc = "done"
    /\ hop = "place"
    /\ hfail = "timeout"
    /\ hposts = 1
    /\ Len(hbatch) = 3
    /\ hbatch[1].cloid = "c2"
    /\ hbatch[2].cloid = "c1"
    /\ hbatch[3].cloid = "c2"
    /\ hres.kind = "err"

\* C5: Multisig order preservation.  multi_sig_single is invoked for the
\* signers in the order given, one call at a time, each signer at most once
\* per position; on success the MultiSigAction holds one signature per signer,
\* the i-th being the one the i-th signer produced.
MultisigOrderPreserved ==
    /\ Cardinality(mbusy) <= 1
    /\ Len(mcalls) <= Len(msigners)
    /\ \A i \in 1..Len(mcalls) : mcalls[i] = msigners[i]
    /\ Len(msigs) <= Len(mcalls)
    /\ mres.kind = "ok" =>
          /\ mcalls = msigners
          /\ Len(mres.action.signatures) = Len(msigners)
          /\ \A i \in 1..Len(msigners) :
                /\ mres.action.signatures[i].signer = msigners[i]
                /\ mres.action.signatures[i] =
                      multi_sig_single(maction, msigners[i], mnonce, muser,
                                       mlead, mchain)

\* Three distinct signers, given in an order that is not sorted, all signed.
MultisigOrderPreservedWitness ==
    /\ mres.kind = "ok"
    /\ msigners = <<"s2", "s3", "s1">>
    /\ Len(mres.action.signatures) = 3

\* C6: While Connected, a failed read or write moves the connection to
\* Disconnected: the task is never Connected on a socket on which a read or
\* a write has failed.
NeverConnectedOnFailedSocket == ~(Connected /\ sockErr)

\* C7: Cancellation.  Once the handle is closed the task eventually
\* terminates, whatever state it is in.
CloseTerminates == closed ~> (pc = "done")

\* C8: No terminal state other than handle-closed.  While the handle is
\* open the task has not returned and the pull interface has not yielded
\* end-of-stream.
NoTerminalWhileOpen == ~closed => (pc # "done" /\ ~eos)

\* The handle is still open after two connections, a failed write, an
\* unparsable payload and a failed reconnect attempt.
NoTerminalWhileOpenWitness ==
    /\ ~closed
    /\ conns = 2
    /\ sockErr
    /\ pc = "sleep"
    /\ \E i \in 1..Len(rcvd) : ~from_slice(rcvd[i]).ok

\* C9: Fixed reconnect delay.  Every connect attempt other than the first
\* starts out of the fixed reconnect sleep, never straight after a
\* disconnect.
DelayBeforeEveryConnect ==
    [][(pc' = "connecting" /\ pc # "connecting") =>
          (pc = "sleep" /\ wait = RECONNECT_DELAY_MS)]_vars

\* The messages a sequence of payloads decodes to, unparsable ones skipped.
RECURSIVE Decoded(_)
Decoded(raws) ==
    IF raws = <<>> THEN <<>>
    ELSE IF from_slice(Head(raws)).ok
         THEN <<from_slice(Head(raws)).item>> \o Decoded(Tail(raws))
         ELSE Decoded(Tail(raws))

\* A step of the task that read a payload it cannot parse.
ReadUnparsable ==
    /\ Len(rcvd') = Len(rcvd) + 1
    /\ ~from_slice(rcvd'[Len(rcvd')]).ok

\* C10: Decode robustness.  A payload that does not parse is dropped: the
\* step that reads it leaves the task's position, the desired set, the frames
\* sent and the consumer channel as they were, and while the handle is open
\* the messages forwarded are exactly the parsable payloads read, decoded, in
\* order (so payloads read after an unparsable one are still delivered).
DecodeRobust ==
    /\ [](~closed => fwd = Decoded(rcvd))
    /\ [][ReadUnparsable =>
            /\ pc' = pc
            /\ pc = "select"
            /\ subs' = subs
            /\ wire' = wire
            /\ rx' = rx
            /\ fwd' = fwd]_vars

\* An unparsable payload was read, then a parsable one on the same
\* connection, which was decoded and forwarded.
DecodeRobustWitness ==
    /\ ~closed
    /\ conns = 1
    /\ pc = "select"
    /\ rcvd = <<"json:???", "json:trades">>
    /\ fwd = <<[channel |-> "Trades"]>>

\* The background task explored within the smaller heartbeat budget, with the
\* scheduling the heartbeat rests on: the 5 s interval elapses (ws.rs:151),
\* and select! picks among its ready branches at random, so a due tick that
\* stays ready is eventually the branch taken (ws.rs:153-154).
WithinHeartbeatBudget == Events' <= MaxHeartbeatEvents

HeartbeatNext ==
    \/ Subscribe /\ WithinHeartbeatBudget
    \/ Unsubscribe /\ WithinHeartbeatBudget
    \/ Close /\ WithinHeartbeatBudget
    \/ PollNext /\ WithinHeartbeatBudget
    \/ ConnectOk /\ WithinHeartbeatBudget
    \/ ConnectErr /\ WithinHeartbeatBudget
    \/ ConnectTimeout /\ WithinHeartbeatBudget
    \/ SleepDone /\ WithinHeartbeatBudget
    \/ ReplayStep /\ WithinHeartbeatBudget
    \/ ReplayDone /\ WithinHeartbeatBudget
    \/ TickElapses /\ WithinHeartbeatBudget
    \/ PingTick /\ WithinHeartbeatBudget
    \/ RecvItem /\ WithinHeartbeatBudget
    \/ RecvUnparsable /\ WithinHeartbeatBudget
    \/ ReadClose /\ WithinHeartbeatBudget
    \/ ReadError /\ WithinHeartbeatBudget
    \/ RecvCmd /\ WithinHeartbeatBudget
    \/ RecvNone /\ WithinHeartbeatBudget
    \/ Reconnect /\ WithinHeartbeatBudget

HeartbeatSpec ==
    /\ Init
    /\ [][HeartbeatNext]_vars
    /\ WF_vars(TickElapses /\ WithinHeartbeatBudget)
    /\ SF_vars(PingTick /\ WithinHeartbeatBudget)

\* C11: Heartbeat.  A ping is sent only by a Connected task in its select!
\* loop and only by consuming a due heartbeat tick; every tick consumed while
\* the connection stays up sends one ping; no tick is pending while the task
\* is Disconnected or Connecting; and under fair scheduling a connection
\* that stays Connected sends a further ping, whatever frames and commands
\* keep arriving (as long as the event budget allows a further step).
Heartbeat ==
    /\ [][(pings' = pings + 1) =>
            (pc = "select" /\ pc' = "select" /\ tick /\ ~tick')]_vars
    /\ [][(tick /\ ~tick' /\ pc' = "select") => pings' = pings + 1]_vars
    /\ [](pc \in {"connecting", "sleep", "disconnected"} => ~tick)
    /\ \A n \in 0..MaxHeartbeatEvents :
          (pc = "select" /\ pings = n) ~>
              (pings = n + 1 \/ pc # "select" \/ Events >= MaxHeartbeatEvents)

\* Two pings were sent on one connection, between which a frame was read.
HeartbeatWitness ==
    /\ pc = "select"
    /\ conns = 1
    /\ pings = 2
    /\ Len(rcvd) = 1
    /\ ~closed

\* The desired set after the task has processed the given commands one at a
\* time, in order, starting from the given set (ws.rs:163-179).
RECURSIVE ApplyAll(_, _)
ApplyAll(set, commands) ==
    IF commands = <<>> THEN set
    ELSE ApplyAll(IF Head(commands).is_sub
                  THEN set \cup {Head(commands).sub}
                  ELSE set \ {Head(commands).sub},
                  Tail(commands))

\* The commands enqueued so far that the task has already taken off the queue.
Processed == SubSeq(cmds, 1, Len(cmds) - Len(srx))

\* C12: Serialized mutation of the desired set.  The queue holds the
\* commands not yet processed in the order the call sites enqueued them; the
\* desired set is the result of applying the processed commands one at a time
\* in enqueue order (so, once the queue is drained, of applying every command
\* enqueued); and the only step that changes the set is the task taking one
\* command off the queue in its select! loop: pings, inbound frames,
\* disconnects and reconnects leave it unchanged.
SerializedMutation ==
    /\ [](srx = SubSeq(cmds, Len(cmds) - Len(srx) + 1, Len(cmds)))
    /\ [](subs = ApplyAll({}, Processed))
    /\ [](srx = <<>> => subs = ApplyAll({}, cmds))
    /\ [][subs' # subs =>
            /\ pc = "select"
            /\ Len(srx') = Len(srx) - 1
            /\ srx' = Tail(srx)
            /\ subs' = ApplyAll(subs, <<Head(srx)>>)]_vars

\* Subscribe, subscribe, unsubscribe of the first: the queue was drained on
\* the first connection, the connection was lost after a ping and a second
\* one made; the set still holds exactly the second descriptor.
SerializedMutationWitness ==
    /\ cmds = <<Cmd(TRUE, "allMids"), Cmd(TRUE, "trades:BTC"),
                Cmd(FALSE, "allMids")>>
    /\ srx = <<>>
    /\ conns = 2
    /\ pc = "select"
    /\ Len(wire) = 1
    /\ subs = {"trades:BTC"}

\* C13: Mode B chain tagging.  Every request the gateway's batch calls sign
\* through a connection id signs a wrapper whose source tag is "a" when the
\* client's endpoint is on mainnet and "b" when it is on testnet, under the
\* mainnet structured-signing domain in both cases.
ModeBChainTagged ==
    hreq.some =>
        /\ hreq.val.signature.message.primary = "Agent"
        /\ hreq.val.signature.message.source =
              (IF is_mainnet(hchain) THEN "a" ELSE "b")
        /\ hreq.val.signature.domain = "CORE_MAINNET_EIP712_DOMAIN"

\* The action kinds of the two signing modes.
TransferKinds == {"usdSend", "spotSend", "sendAsset"}
TradingKinds ==
    {"order", "cancel", "cancelByCloid", "batchModify", "scheduleCancel",
     "evmUserModify", "noop"}

\* C14: Static signing-mode selection.  Every signed request of a USD, spot
\* or asset transfer carries a signature over the structured form of the
\* action itself (Mode A) and every signed request of an order, cancel,
\* cancel-by-cloid or modify batch, a scheduled cancel, a block-size toggle
\* or a no-op carries a signature over the Agent wrapper of a connection id
\* (Mode B), whatever the nonce, vault address, expiry and chain; every kind
\* is in exactly one of the two classes.
ModeSelectionStatic ==
    /\ TransferKinds \cap TradingKinds = {}
    /\ (spc = "done" /\ sres.kind = "ok") =>
          /\ saction \in TransferKinds \cup TradingKinds
          /\ saction \in TransferKinds =>
                /\ ~IsModeB(sres.request.signature)
                /\ sres.request.signature.message.primary = saction
          /\ saction \in TradingKinds => IsModeB(sres.request.signature)

\* A USD transfer signed for testnet with a vault address and an expiry
\* passed, right after a no-op signed through a connection id.
ModeSelectionStaticWitness ==
    /\ spc = "done"
    /\ sres.kind = "ok"
    /\ saction = "usdSend"
    /\ schain = "Testnet"
    /\ svault.some
    /\ sexpires.some
    /\ ~IsModeB(sres.request.signature)
    /\ sprev.some
    /\ sprev.val.action = "noop"

\* C15: Vault address and expiry of the request.  The request of a transfer
\* (Mode A) has no vault address and no expiry whatever the caller passed;
\* the request of a trading action (Mode B) carries the vault address the
\* caller passed and the caller's expiry in milliseconds since the epoch; in
\* both modes the request's nonce and action are the caller's.
RequestCarriesInputs ==
    (spc = "done" /\ sres.kind = "ok") =>
        /\ sres.request.nonce = snonce
        /\ sres.request.action = saction
        /\ saction \in TransferKinds =>
              /\ sres.request.vault_address = None
              /\ sres.request.expires_after = None
        /\ saction \in TradingKinds =>
              /\ sres.request.vault_address = svault
              /\ sres.request.expires_after.some = sexpires.some
              /\ sexpires.some =>
                    sres.request.expires_after.val =
                       sexpires.val.secs * 1000 + sexpires.val.millis

\* A spot transfer signed with a vault address and an expiry passed: the
\* request has neither.
RequestCarriesInputsWitness ==
    /\ spc = "done"
    /\ sres.kind = "ok"
    /\ saction = "spotSend"
    /\ svault = Some("B")
    /\ sexpires = Some([secs |-> 1, millis |-> 0])
    /\ snonce = 2
    /\ sres.request.vault_address = None

\* The milliseconds the caller's expiry of the lead's call stands for.
LeadExpiresMillis ==
    IF mlexpires.some
    THEN Some(mlexpires.val.secs * 1000 + mlexpires.val.millis)
    ELSE None

\* C16: The lead's signature.  The envelope the lead signs holds the chain's
\* name, the hash of the complete MultiSigAction (every collected signature
\* in order, and the payload) with the nonce, vault address and expiry, and
\* the nonce; it is signed under the mainnet multisig domain on mainnet and
\* on testnet; and the request carries the MultiSigAction as its multisig
\* action with the nonce, vault address and expiry given.
LeadEnvelope ==
    mreq.some =>
        /\ mres.kind = "ok"
        /\ mres.action.signatures = msigs
        /\ mreq.val.signature.signer = mlsigner
        /\ mreq.val.signature.domain = "MULTISIG_MAINNET_EIP712_DOMAIN"
        /\ mreq.val.signature.message =
              [primary |-> "SendMultiSig",
               hyperliquidChain |-> mchain,
               multiSigActionHash |->
                  b256_to_string(rmp_hash(<<mres.action>>, mlnonce, mlvault,
                                          LeadExpiresMillis)),
               nonce |-> mlnonce]
        /\ mreq.val.action = [type |-> "multiSig", value |-> mres.action]
        /\ mreq.val.nonce = mlnonce
        /\ mreq.val.vault_address = mlvault
        /\ mreq.val.expires_after = LeadExpiresMillis

\* On testnet, two signers given in an order that is not sorted signed, and
\* the lead signed with a vault address and an expiry.
LeadEnvelopeWitness ==
    /\ mreq.some
    /\ mchain = "Testnet"
    /\ msigners = <<"s2", "s1">>
    /\ Len(msigs) = 2
    /\ mlvault.some
    /\ mlexpires.some

\* C17: multi_sig_single.  Each collected signature is by the signer of its
\* position; for an action with a multisig structured form it is over that
\* form, which carries the multisig account and the lead, under the multisig
\* domain; for any other action it is over the Agent wrapper, tagged with
\* the chain's source, of the hash of the triple (lowercased account,
\* lowercased lead, action) with the nonce, no vault address and no expiry,
\* which is not the hash of the plain action.
MultiSigSingleForm ==
    \A i \in 1..Len(msigs) :
        /\ msigs[i].signer = msigners[i]
        /\ IF maction = "usdSend"
           THEN /\ msigs[i].domain = "MULTISIG_MAINNET_EIP712_DOMAIN"
                /\ msigs[i].message.primary = "UsdSend"
                /\ msigs[i].message.payloadMultiSigUser = muser
                /\ msigs[i].message.outerSigner = mlead
                /\ msigs[i].message.action = maction
           ELSE /\ msigs[i].domain = "CORE_MAINNET_EIP712_DOMAIN"
                /\ msigs[i].message.primary = "Agent"
                /\ msigs[i].message.source =
                      (IF mchain = "Mainnet" THEN "a" ELSE "b")
                /\ msigs[i].message.connectionId =
                      rmp_hash(<<to_lowercase(to_string(muser)),
                                 to_lowercase(to_string(mlead)), maction>>,
                               mnonce, None, None)
                /\ msigs[i].message.connectionId #
                      rmp_hash(<<maction>>, mnonce, None, None)

\* Two signers signed an order for a multisig account and a lead that
\* differ, on testnet.
MultiSigSingleFormWitness ==
    /\ maction = "order"
    /\ mchain = "Testnet"
    /\ muser = "A"
    /\ mlead = "B"
    /\ Len(msigs) = 2
    /\ msigs[2].message.primary = "Agent"

\* C18: Lowercasing.  Whatever spelling the multisig account and the lead
\* were written in, a signer signs the hash of the triple with both
\* addresses lowercased, and the MultiSigAction returned stores the same two
\* lowercased strings, which differ from the mixed-case rendering.
LowercasedAddresses ==
    /\ \A i \in 1..Len(msigs) :
          \A u \in WrittenForms(muser), l \in WrittenForms(mlead) :
             /\ multi_sig_single(maction, msigners[i], mnonce, from_str(u),
                                 from_str(l), mchain) = msigs[i]
             /\ msigs[i].message.primary = "Agent" =>
                   msigs[i].message.connectionId =
                      rmp_hash(<<to_lowercase(u), to_lowercase(l), maction>>,
                               mnonce, None, None)
    /\ mres.kind = "ok" =>
          /\ \A u \in WrittenForms(muser) :
                mres.action.payload.multi_sig_user = to_lowercase(u)
          /\ \A l \in WrittenForms(mlead) :
                mres.action.payload.outer_signer = to_lowercase(l)
          /\ \A i \in 1..Len(mres.action.signatures) :
                mres.action.signatures[i].message.primary = "Agent" =>
                   /\ mres.action.signatures[i].message.connectionId
                         .keccak.msgpack[1] = mres.action.payload.multi_sig_user
                   /\ mres.action.signatures[i].message.connectionId
                         .keccak.msgpack[2] = mres.action.payload.outer_signer

\* An order was signed for an account and a lead whose mixed-case rendering
\* has upper-case digits; the MultiSigAction stores the lowercased strings.
LowercasedAddressesWitness ==
    /\ mres.kind = "ok"
    /\ maction = "order"
    /\ muser = "A"
    /\ mlead = "B"
    /\ Len(mres.action.signatures) = 1
    /\ to_string(muser) # mres.action.payload.multi_sig_user
    /\ mres.action.payload.outer_signer = "0xef01"

ResultType(res) == [variant |-> res.kind, fields |-> DOMAIN res]

\* C20: Ambiguous outcome versus definite rejection.  The result of a batch
\* call whose transport failed after the request was sent has a type other
\* than the type of the result of a call the venue rejected with status
\* "err".
AmbiguousOutcomeDistinct ==
    (hpc = "done" /\ hfail \in TransportFailures) =>
        ResultType(hres) # ResultType(ActionError(hids, "venue"))

AtMostOnePost ==
    /\ hposts <= 1
    /\ (hpc = "done" /\ hfail \in TransportFailures) =>
          /\ hres.kind = "err"
          /\ hposts = 1
    /\ (hpc = "done" /\ hres.kind = "ok") =>
          /\ hfail = "none"
          /\ hposts = 1

\* A USD transfer whose signed request timed out.
AtMostOnePostWitness ==
    /\ hpc = "done"
    /\ hop = "send_usdc"
    /\ hreq.some
    /\ hfail = "timeout"
    /\ hposts = 1
    /\ hres = [kind |-> "err", err |-> "timeout"]

\* Is the body one of the shapes the call matches on: the venue's error, or
\* the Ok response of the call's kind?
ExpectedShape(op, batch, body) ==
    /\ body.kind = "api"
    /\ \/ body.status = "err"
       \/ body \in ExpectedOk(op, batch)

\* C23: Unexpected response shapes are fatal.  When the response of a
\* mutating call is JSON but is none of the shapes the call expects, the
\* call panics: it returns neither a success value nor an error value.
UnexpectedShapeFatal ==
    (hpc = "done" /\ hbody.kind \in {"json", "api"}
        /\ ~ExpectedShape(hop, hbatch, hbody)) =>
        hres.kind = "panic"

\* C29: Signing failure.  When the signer rejects inside a mutating call, no
\* request is signed, no POST is issued and no response arrives, and the
\* call returns an error; the error of place, cancel, cancel_by_cloid and
\* modify lists the identifier of every item of the batch, in order.
SignFailureSendsNothing ==
    hsign = "rejected" =>
        /\ hposts = 0
        /\ hbody = NoBody
        /\ hreq = None
        /\ hpc = "done" =>
              /\ hres.kind = "err"
              /\ hfail = "sign"
              /\ hop \in BatchCalls =>
                    /\ Len(hres.ids) = Len(hbatch)
                    /\ \A i \in 1..Len(hbatch) :
                          hres.ids[i] = IdOf(hop, hbatch[i])

\* A modify of two orders whose signer rejected.
SignFailureSendsNothingWitness ==
    /\ hpc = "done"
    /\ hop = "modify"
    /\ hsign = "rejected"
    /\ Len(hbatch) = 2
    /\ hres = ActionError(<<2, 1>>, "sign")
    /\ hposts = 0

\* Is the result an error that names the signer who?
Tagged(res, who) ==
    /\ res.kind = "err"
    /\ "signer" \in DOMAIN res
    /\ res.signer = who

\* C24: Signing errors name the signer.  When the signer of a single-signer
\* signing call rejects, the call returns an error that carries the address
\* of that signer, and no request.
SigningErrorTagged ==
    (spc = "done" /\ sres.kind # "ok") =>
        /\ Tagged(sres, address(ssigner))
        /\ "request" \notin DOMAIN sres

\* C30: Collection fails fast.  When the k-th signer rejects, the function
\* returns an error that names that signer, the signers invoked are the
\* first k of the list, nothing is invoked or signed after the error, and
\* no MultiSigAction is returned or signed by the lead; a MultiSigAction is
\* returned only when every signer of the list was invoked and signed.
CollectFailsFast ==
    /\ [](mres.kind = "err" =>
            /\ mpc = "done"
            /\ mbusy = {}
            /\ Len(mcalls) = Len(msigs) + 1
            /\ mcalls = SubSeq(msigners, 1, Len(mcalls))
            /\ Tagged(mres, address(msigners[Len(mcalls)]))
            /\ "action" \notin DOMAIN mres
            /\ mreq = None)
    /\ [](mres.kind = "ok" =>
            /\ mcalls = msigners
            /\ Len(mres.action.signatures) = Len(msigners)
            /\ \A i \in 1..Len(msigners) :
                  mres.action.signatures[i].signer = msigners[i])
    /\ [][mres.kind = "err" => UNCHANGED <<mres, mcalls, msigs, mreq>>]_vars

\* Of three signers the second rejected after the first had signed.
CollectFailsFastWitness ==
    /\ mpc = "done"
    /\ msigners = <<"s1", "s2", "s3">>
    /\ mcalls = <<"s1", "s2">>
    /\ Len(msigs) = 1
    /\ mres = [kind |-> "err", signer |-> address("s2")]

\* The positions of the frames of the current socket that are for d.
FramesFor(d) == {i \in 1..Len(wire) : wire[i].subscription = d}

\* C26: Frame alternation.  On one connection the frames for a descriptor
\* are subscribe, unsubscribe, subscribe, ... in turn, the first being a
\* subscribe, replay frames included: no two subscribe frames follow each
\* other without an unsubscribe between them, and no unsubscribe frame comes
\* before a subscribe frame of that connection.
FrameAlternation ==
    \A d \in Descriptors :
        \A i \in FramesFor(d) :
            wire[i].method =
                (IF Cardinality({j \in FramesFor(d) : j < i}) % 2 = 0
                 THEN "subscribe" ELSE "unsubscribe")

\* On a second connection the descriptor was replayed, then unsubscribed,
\* then subscribed again.
FrameAlternationWitness ==
    /\ conns = 2
    /\ pc = "select"
    /\ wire = <<Frame("subscribe", "allMids", TRUE),
                Frame("unsubscribe", "allMids", TRUE),
                Frame("subscribe", "allMids", TRUE)>>
    /\ subs = {"allMids"}

\* The last frame issued on the socket was not written.
LastWriteFailed == wire # <<>> /\ ~wire[Len(wire)].ok

\* C27: Failed writes of command frames.  When the write of the frame of a
\* subscribe command fails, the descriptor is in the desired set and the
\* connection is dropped; when the write of an unsubscribe frame fails, the
\* descriptor is out of the set and the connection is dropped; the set
\* stays as it is until the next successful connect, whose replay covers
\* exactly the set: the first descriptor is replayed, the second is not.
FailedCommandWrite ==
    /\ [][(pc = "select" /\ wire' # wire /\ ~wire'[Len(wire')].ok) =>
            /\ pc' = "disconnected"
            /\ wire'[Len(wire')].method = "subscribe" =>
                  wire'[Len(wire')].subscription \in subs'
            /\ wire'[Len(wire')].method = "unsubscribe" =>
                  wire'[Len(wire')].subscription \notin subs']_vars
    /\ [][(pc \in {"disconnected", "connecting", "sleep"}) =>
            (subs' = subs /\ (pc' # "replay" => wire' = wire))]_vars
    /\ [][(pc = "connecting" /\ pc' = "replay") =>
            /\ todo' = subs
            /\ wire' = <<>>
            /\ (LastWriteFailed /\ wire[Len(wire)].method = "subscribe") =>
                  wire[Len(wire)].subscription \in todo'
            /\ (LastWriteFailed /\ wire[Len(wire)].method = "unsubscribe") =>
                  wire[Len(wire)].subscription \notin todo']_vars
    /\ [][(pc = "replay" /\ pc' = "select") =>
            \A d \in Descriptors :
               Count(wire, "subscribe", d) = (IF d \in subs THEN 1 ELSE 0)]_vars

\* The write of the frame of an unsubscribe command failed on the first
\* connection after the subscribe frame had been written: the connection
\* is dropped and the set is empty.
FailedCommandWriteWitness ==
    /\ conns = 1
    /\ pc = "disconnected"
    /\ cmds = <<Cmd(TRUE, "trades:BTC"), Cmd(FALSE, "trades:BTC")>>
    /\ srx = <<>>
    /\ wire = <<Frame("subscribe", "trades:BTC", TRUE),
                Frame("unsubscribe", "trades:BTC", FALSE)>>
    /\ subs = {}

\* Scheduling of the command branch: select! polls its branches in random
\* order, so srx.recv(), ready whenever the queue is not empty, is
\* eventually taken by a task that keeps running its select! loop.
QueueSpec ==
    /\ Init
    /\ [][HeartbeatNext]_vars
    /\ SF_vars(RecvCmd /\ WithinHeartbeatBudget)

\* The last frame for d in the log of a socket is a subscribe frame.
LastFrameSubscribes(log, d) ==
    /\ \E i \in 1..Len(log) : log[i].subscription = d
    /\ \A i \in 1..Len(log) :
          (/\ log[i].subscription = d
           /\ \A j \in (i + 1)..Len(log) : log[j].subscription # d)
             => log[i].method = "subscribe"

\* C28: Commands queued while not connected.  A command enqueued while the
\* task is connecting, replaying or waiting to reconnect stays in the queue
\* behind the ones before it: outside the select! loop the queue only
\* grows at its end, and the only step that shortens it takes its head, in
\* the select! loop.  A task that stays in its select! loop with a command
\* queued eventually takes it, and after taking a subscribe command the
\* last frame for its descriptor on the connection is a subscribe frame.
QueuedCommandsProcessed ==
    /\ [](srx = SubSeq(cmds, Len(cmds) - Len(srx) + 1, Len(cmds)))
    /\ [][(pc # "select") =>
            (Len(srx') >= Len(srx) /\ SubSeq(srx', 1, Len(srx)) = srx)]_vars
    /\ [][(Len(srx') < Len(srx)) =>
            (pc = "select" /\ srx' = Tail(srx) /\ cmds' = cmds)]_vars
    /\ [][(Len(srx') < Len(srx) /\ Head(srx).is_sub) =>
            (Head(srx).sub \in subs'
             /\ LastFrameSubscribes(wire', Head(srx).sub))]_vars
    /\ \A n \in 0..MaxHeartbeatEvents :
          (pc = "select" /\ srx # <<>> /\ Len(cmds) - Len(srx) = n) ~>
              (Len(cmds) - Len(srx) > n \/ pc # "select")

\* Two commands were enqueued before the first connect attempt failed; both
\* are in the queue, in order, while the task waits to reconnect.
QueuedCommandsProcessedWitness ==
    /\ pc = "sleep"
    /\ conns = 0
    /\ cmds = <<Cmd(TRUE, "allMids"), Cmd(FALSE, "trades:BTC")>>
    /\ srx = cmds
    /\ subs = {}

====
